---- MODULE Spec2Model ----
(***************************************************************************)
(* A model of src/transferable-object.ts: the SQL export (getExport), the  *)
(* streaming import (runFromFile, parseSQLStatements,                      *)
(* executeStatementSafely) and the two-pass R2 dump (dump).                *)
(*                                                                         *)
(* Text is a sequence of one-character strings, so that splitting,         *)
(* trimming, quoting and chunking are computed character by character as   *)
(* the code computes them.                                                 *)
(***************************************************************************)
EXTENDS Integers, Sequences, FiniteSets, TLC

(***************************************************************************)
(* Bounds of the model.                                                    *)
(***************************************************************************)
\* Longest raw import text (characters) of the splitter specification.
MaxLen == 4
\* Most statements of an import script, and most chunks a body is read in.
MaxStmts == 3
MaxChunks == 2
\* Longest text value and most rows of the stores that are transferred.
MaxText == 2
MaxTransferRows == 1
\* Most statements of an import script of the guarded import.
MaxGuardStmts == 2
\* Most tables of the catalog of the export requests.
MaxTables == 3
\* Most rows of the store that is dumped, and the last clock value.
MaxRows == 6
MaxClock == 1
\* Rows of a page, and bytes of the tuples of one INSERT statement, of
\* getExport.  The code has BATCH_SIZE = 10000 and MAX_STATEMENT_SIZE =
\* 100 * 1024; the model keeps the two mechanisms at values its stores
\* reach.  MAX_STATEMENT_SIZE is above the bytes of an INSERT statement
\* without its tuples.
BATCH_SIZE == 3
MAX_STATEMENT_SIZE == 48
\* The tokens the lexer of the store scans in one run.
LexBlock == 6

----------------------------------------------------------------------------
(***************************************************************************)
(* Text helpers: the String methods the code calls.  They are written with *)
(* quantifiers over positions and by halving, not by recursion over the    *)
(* characters, so that long texts evaluate in shallow depth.               *)
(***************************************************************************)
NL == "\n"
SEMI == ";"

\* const v = ...; F(v)
With(v, F(_)) == F(v)

\* The first position from..Len(s) whose character satisfies P, Len(s) + 1
\* if there is none; the last position 1..upto, 0 if there is none.
FirstPos(s, from, P(_)) ==
    IF \E i \in from..Len(s) : P(s[i])
    THEN CHOOSE i \in from..Len(s) : P(s[i]) /\ \A j \in from..(i - 1) : ~P(s[j])
    ELSE Len(s) + 1

LastPos(s, upto, P(_)) ==
    IF \E i \in 1..upto : P(s[i])
    THEN CHOOSE i \in 1..upto : P(s[i]) /\ \A j \in (i + 1)..upto : ~P(s[j])
    ELSE 0

\* The characters String.prototype.trim() strips and \s matches.
IsWs(c) == c \in {" ", "\n", "\t", "\r"}

\* The positions of the first and the last character of s that is not
\* whitespace (Len(s) + 1 and 0 if there is none), and s.trim().
FirstText(s) == FirstPos(s, 1, LAMBDA c : ~IsWs(c))
LastText(s) == LastPos(s, Len(s), LAMBDA c : ~IsWs(c))
Trim(s) == SubSeq(s, FirstText(s), LastText(s))

\* s.startsWith(p), s.endsWith(p)
StartsWith(s, p) == Len(s) >= Len(p) /\ SubSeq(s, 1, Len(p)) = p
EndsWith(s, p) == Len(s) >= Len(p) /\ SubSeq(s, Len(s) - Len(p) + 1, Len(s)) = p

\* s.substring(0, n)
Substring(s, n) == SubSeq(s, 1, IF Len(s) < n THEN Len(s) ELSE n)

\* The concatenation of the texts ss[lo..hi], and of all of ss.
RECURSIVE ConcatRange(_, _, _)
ConcatRange(ss, lo, hi) ==
    IF lo > hi THEN <<>>
    ELSE IF lo = hi THEN ss[lo]
    ELSE ConcatRange(ss, lo, (lo + hi) \div 2) \o ConcatRange(ss, (lo + hi) \div 2 + 1, hi)

Concat(ss) == ConcatRange(ss, 1, Len(ss))

\* parts.join(sep)
Join(parts, sep) ==
    Concat([i \in 1..(2 * Len(parts) - 1) |-> IF i % 2 = 1 THEN parts[(i + 1) \div 2] ELSE sep])

\* text.split("\n"): the lines of text, each with the number of characters
\* of text that precede it.  The k-th line lies between the (k-1)-th and the
\* k-th newline.
SplitLines(text) ==
    With(SelectSeq([i \in 1..Len(text) |-> i], LAMBDA i : text[i] = NL), LAMBDA nls :
       [k \in 1..(Len(nls) + 1) |->
           [off  |-> IF k = 1 THEN 0 ELSE nls[k - 1],
            line |-> SubSeq(text, (IF k = 1 THEN 0 ELSE nls[k - 1]) + 1,
                            (IF k > Len(nls) THEN Len(text) + 1 ELSE nls[k]) - 1)]])

----------------------------------------------------------------------------
(***************************************************************************)
(* parseSQLStatements: the statement splitter.                             *)
(*                                                                         *)
(* The loop skips the comment and blank lines, appends every other line    *)
(* and "\n" to currentStatement, and at a line whose trimmed text ends     *)
(* with ";" pushes the trimmed currentStatement and empties it.  So the    *)
(* statements are, for each terminating line in turn, the kept lines after *)
(* the terminating line before it up to it; the kept lines after the last  *)
(* terminating line are in no statement.                                   *)
(***************************************************************************)
\* A splitter that skips the empty lines only.
IsEmptyLine(line) == Trim(line) = <<>>

\* Skip comments and empty lines.
IsSkippedLine(line) == StartsWith(Trim(line), <<"-", "-">>) \/ Trim(line) = <<>>

\* The statement of the kept lines a..b: currentStatement.trim(), with the
\* positions in text of its first and last character (the code returns the
\* text alone).
StatementAt(kept, a, b) ==
    [text  |-> Trim(Concat([i \in 1..(b - a + 1) |-> kept[a + i - 1].line \o <<NL>>])),
     first |-> kept[a].off + FirstText(kept[a].line),
     last  |-> kept[b].off + LastText(kept[b].line)]

\* kept: the lines that are not skipped; ends: the positions in kept of the
\* lines that end a statement.
parseSQLStatementsPos(text) ==
    With(SelectSeq(SplitLines(text), LAMBDA ln : ~IsSkippedLine(ln.line)), LAMBDA kept :
       With(SelectSeq([i \in 1..Len(kept) |-> i],
                      LAMBDA i : EndsWith(Trim(kept[i].line), <<SEMI>>)), LAMBDA ends :
          [j \in 1..Len(ends) |->
              StatementAt(kept, IF j = 1 THEN 1 ELSE ends[j - 1] + 1, ends[j])]))

\* What the code returns: the statements' texts.
parseSQLStatements(text) ==
    [i \in 1..Len(parseSQLStatementsPos(text)) |-> parseSQLStatementsPos(text)[i].text]

----------------------------------------------------------------------------
(***************************************************************************)
(* The embedded SQL store behind this.storage.sql.exec.  It is the         *)
(* platform's SQLite, not code of the repository; the model gives it the   *)
(* statements the export writes (CREATE TABLE, INSERT [OR IGNORE]) and     *)
(* DROP TABLE, and fails every other text with a syntax error.             *)
(*                                                                         *)
(* A store is the sequence of its tables in catalog (creation) order.  A   *)
(* table is [name, sql, columns, pk, rows]: sql is the text of its CREATE  *)
(* statement as sqlite_master keeps it, pk is the position of the column   *)
(* declared PRIMARY KEY (0 if none), rows are in rowid order.  A value is  *)
(* [t |-> "null"], [t |-> "int", neg, i], [t |-> "real", neg, i, f],       *)
(* [t |-> "text", s] or [t |-> "blob", b].                                 *)
(***************************************************************************)
LowerSeq == <<"a", "b", "c", "d", "e", "f", "g", "h", "i", "j", "k", "l", "m", "n", "o", "p", "q", "r", "s", "t", "u", "v", "w", "x", "y", "z">>
UpperSeq == <<"A", "B", "C", "D", "E", "F", "G", "H", "I", "J", "K", "L", "M", "N", "O", "P", "Q", "R", "S", "T", "U", "V", "W", "X", "Y", "Z">>
DigitSeq == <<"0", "1", "2", "3", "4", "5", "6", "7", "8", "9">>
HexSeq == <<"0", "1", "2", "3", "4", "5", "6", "7", "8", "9", "a", "b", "c", "d", "e", "f">>

Range(f) == {f[i] : i \in DOMAIN f}
IndexIn(seq, c) == CHOOSE i \in DOMAIN seq : seq[i] = c

ToUpper(c) == IF c \in Range(LowerSeq) THEN UpperSeq[IndexIn(LowerSeq, c)] ELSE c
UpperText(s) == [i \in 1..Len(s) |-> ToUpper(s[i])]

IsDigit(c) == c \in Range(DigitSeq)
\* \w of the regular expressions
IsWordChar(c) == c \in Range(LowerSeq) \cup Range(UpperSeq) \cup Range(DigitSeq) \cup {"_"}
IsHex(c) == ToUpper(c) \in Range(UpperText(HexSeq))
HexVal(c) == IndexIn(UpperText(HexSeq), ToUpper(c)) - 1

\* The position of the last character of the word / the digits that start
\* at position i of s.
WordEnd(s, i) == FirstPos(s, i, LAMBDA c : ~IsWordChar(c)) - 1
DigitEnd(s, i) == FirstPos(s, i, LAMBDA c : ~IsDigit(c)) - 1

\* String(n) for a natural number: its decimal digits.
RECURSIVE Digits(_)
Digits(n) ==
    IF n < 10 THEN << DigitSeq[n + 1] >>
    ELSE Append(Digits(n \div 10), DigitSeq[(n % 10) + 1])

\* The number a digit text denotes.
RECURSIVE NumOf(_, _)
NumOf(ds, acc) ==
    IF ds = <<>> THEN acc
    ELSE NumOf(Tail(ds), acc * 10 + (IndexIn(DigitSeq, Head(ds)) - 1))

\* The keywords, in capitals.
Kw ==
    [create |-> <<"C", "R", "E", "A", "T", "E">>, table |-> <<"T", "A", "B", "L", "E">>, if |-> <<"I", "F">>, not |-> <<"N", "O", "T">>,
     exists |-> <<"E", "X", "I", "S", "T", "S">>, insert |-> <<"I", "N", "S", "E", "R", "T">>, or |-> <<"O", "R">>, ignore |-> <<"I", "G", "N", "O", "R", "E">>,
     into |-> <<"I", "N", "T", "O">>, values |-> <<"V", "A", "L", "U", "E", "S">>, drop |-> <<"D", "R", "O", "P">>, primary |-> <<"P", "R", "I", "M", "A", "R", "Y">>,
     key |-> <<"K", "E", "Y">>, null |-> <<"N", "U", "L", "L">>, begin |-> <<"B", "E", "G", "I", "N">>, commit |-> <<"C", "O", "M", "M", "I", "T">>,
     rollback |-> <<"R", "O", "L", "L", "B", "A", "C", "K">>, pragma |-> <<"P", "R", "A", "G", "M", "A">>,
     index |-> <<"I", "N", "D", "E", "X">>, on |-> <<"O", "N">>]

\* A quoted literal whose content starts at i.  Quotes come in runs; in a
\* run every pair '' is one quote of the content, and the last quote of the
\* first run of odd length closes the literal.  RunStart is the first
\* position of the run of quotes that holds position p.
RunStart(s, i, p) ==
    With(LastPos(s, p - 1, LAMBDA c : c # "'") + 1, LAMBDA q : IF q > i THEN q ELSE i)

ClosesAt(s, i, j) ==
    /\ s[j] = "'"
    /\ j = Len(s) \/ s[j + 1] # "'"
    /\ (j - RunStart(s, i, j)) % 2 = 0

\* [close, v]: the position of the closing quote (0 if the literal is not
\* closed) and the content, every second quote of a run dropped.
ScanQuoted(s, i) ==
    IF \E j \in i..Len(s) : ClosesAt(s, i, j)
    THEN With(CHOOSE j \in i..Len(s) :
                 ClosesAt(s, i, j) /\ \A h \in i..(j - 1) : ~ClosesAt(s, i, h),
              LAMBDA close :
         With(SelectSeq([k \in 1..(close - i) |-> i + k - 1],
                        LAMBDA p : ~(s[p] = "'" /\ (p - RunStart(s, i, p)) % 2 = 1)),
              LAMBDA kept :
         [close |-> close, v |-> [k \in 1..Len(kept) |-> s[kept[k]]]]))
    ELSE [close |-> 0, v |-> <<>>]

\* A token is [k, v, at]: its kind ("word", "punct", "lit", "bad"), its
\* value and its position in the text.  One lexical element gives [toks,
\* next]: its token (none for a comment) and the position after it.  A text
\* SQLite cannot tokenize gives BadToken and ends the scan.
BadToken == [k |-> "bad", v |-> <<>>, at |-> 0]
Tok(k, v, at) == [k |-> k, v |-> v, at |-> at]
One(tok, next) == [toks |-> << tok >>, next |-> next]

\* 'text' whose opening quote is at i, q the scan of what follows it.
LexText(s, i, q) ==
    IF q.close = 0 THEN One(BadToken, Len(s) + 1)
    ELSE One(Tok("lit", [t |-> "text", s |-> q.v], i), q.close + 1)

\* X'hex' at i: two digits a byte.
LexBlob(s, i, q) ==
    IF q.close = 0 \/ Len(q.v) % 2 # 0 \/ \E j \in 1..Len(q.v) : ~IsHex(q.v[j])
    THEN One(BadToken, Len(s) + 1)
    ELSE One(Tok("lit", [t |-> "blob",
                         b |-> [k \in 1..(Len(q.v) \div 2) |->
                                   HexVal(q.v[2 * k - 1]) * 16 + HexVal(q.v[2 * k])]],
                 i), q.close + 1)

\* A number at i whose digits start at b: its digits are s[b..e], its
\* fraction digits s[e+2..fe] when fe > e + 1.  The value stored has no
\* trailing zero in the fraction and no negative zero.
LexNumber(s, i, neg, b) ==
    With(DigitEnd(s, b), LAMBDA e :
    With(IF e < Len(s) /\ s[e + 1] = "." THEN DigitEnd(s, e + 2) ELSE e, LAMBDA fe :
    With(IF fe > e + 1 THEN fe ELSE e, LAMBDA last :
    With(NumOf(SubSeq(s, b, e), 0), LAMBDA ip :
       IF last < Len(s) /\ (IsWordChar(s[last + 1]) \/ s[last + 1] = ".")
       THEN One(BadToken, Len(s) + 1)
       ELSE One(Tok("lit",
                    IF fe > e + 1
                    THEN [t |-> "real", neg |-> neg, i |-> ip,
                          f |-> SubSeq(s, e + 2, LastPos(s, fe, LAMBDA c : c # "0"))]
                    ELSE [t |-> "int", neg |-> neg /\ ip # 0, i |-> ip],
                    i), last + 1)))))

\* The lexical element at position i, which is not whitespace.
LexStep(s, i) ==
    IF s[i] = "-" /\ i < Len(s) /\ s[i + 1] = "-"
    THEN [toks |-> <<>>, next |-> FirstPos(s, i, LAMBDA c : c = NL) + 1]
    ELSE IF s[i] \in {"(", ")", ",", ";"} THEN One(Tok("punct", s[i], i), i + 1)
    ELSE IF s[i] = "'" THEN LexText(s, i, ScanQuoted(s, i + 1))
    ELSE IF s[i] \in {"X", "x"} /\ i < Len(s) /\ s[i + 1] = "'"
         THEN LexBlob(s, i, ScanQuoted(s, i + 2))
    ELSE IF IsDigit(s[i]) THEN LexNumber(s, i, FALSE, i)
    ELSE IF s[i] = "-" /\ i < Len(s) /\ IsDigit(s[i + 1]) THEN LexNumber(s, i, TRUE, i + 1)
    ELSE IF IsWordChar(s[i])
         THEN With(SubSeq(s, i, WordEnd(s, i)), LAMBDA w :
                 One(IF UpperText(w) = Kw.null THEN Tok("lit", [t |-> "null"], i)
                     ELSE Tok("word", w, i),
                     i + Len(w)))
    ELSE One(BadToken, Len(s) + 1)

\* The tokens of a SQL text.  LexRun scans at most n elements from position
\* i, LexFrom runs of LexBlock elements one after the other.
RECURSIVE LexRun(_, _, _)
LexRun(s, i, n) ==
    IF n = 0 \/ i > Len(s) THEN [toks |-> <<>>, next |-> i]
    ELSE With(LexStep(s, i), LAMBDA st :
         With(LexRun(s, FirstPos(s, st.next, LAMBDA c : ~IsWs(c)), n - 1), LAMBDA rest :
            [toks |-> st.toks \o rest.toks, next |-> rest.next]))

RECURSIVE LexFrom(_, _)
LexFrom(s, i) ==
    IF i > Len(s) THEN <<>>
    ELSE With(LexRun(s, i, LexBlock), LAMBDA r : r.toks \o LexFrom(s, r.next))

Lex(s) == LexFrom(s, FirstText(s))

IsWord(toks, j, w) == j <= Len(toks) /\ toks[j].k = "word" /\ UpperText(toks[j].v) = w
IsName(toks, j) == j <= Len(toks) /\ toks[j].k = "word"
IsPunct(toks, j, c) == j <= Len(toks) /\ toks[j].k = "punct" /\ toks[j].v = c
IsLit(toks, j) == j <= Len(toks) /\ toks[j].k = "lit"

\* The token groups between the separators sep of toks[from..to], a group
\* being a pair of token positions.
Groups(toks, sep, from, to) ==
    With(SelectSeq([k \in 1..(to - from + 1) |-> from + k - 1],
                   LAMBDA j : IsPunct(toks, j, sep)), LAMBDA seps :
       [k \in 1..(Len(seps) + 1) |->
           << IF k = 1 THEN from ELSE seps[k - 1] + 1,
              IF k > Len(seps) THEN to ELSE seps[k] - 1 >>])

\* The position of the table in the store, 0 if there is none.
TableIndex(store, name) ==
    IF \E k \in 1..Len(store) : store[k].name = name
    THEN CHOOSE k \in 1..Len(store) : store[k].name = name
    ELSE 0

\* What exec gives: [ok, store, rowsWritten]; ok = FALSE is a thrown error.
ExecOk(store, n) == [ok |-> TRUE, store |-> store, rowsWritten |-> n]
ExecFail(store) == [ok |-> FALSE, store |-> store, rowsWritten |-> 0]

NullValue == [t |-> "null"]

\* CREATE TABLE [IF NOT EXISTS] name (column [words], ...), tokens a..b of
\* text.  sqlite_master keeps "CREATE TABLE " and the statement's text from
\* the table name on, so IF NOT EXISTS is not part of the stored schema.
\* n is the position of the name, gs the column definitions.
IsPkDef(toks, g) ==
    \E j \in g[1]..(g[2] - 1) : IsWord(toks, j, Kw.primary) /\ IsWord(toks, j + 1, Kw.key)

CreateWellFormed(toks, b, n, gs) ==
    /\ IsName(toks, n) /\ n + 2 < b
    /\ IsPunct(toks, n + 1, "(") /\ IsPunct(toks, b, ")")
    /\ \A g \in 1..Len(gs) :
          /\ gs[g][1] <= gs[g][2]
          /\ \A j \in gs[g][1]..gs[g][2] : IsName(toks, j)
    /\ \A g, h \in 1..Len(gs) : g # h => toks[gs[g][1]].v # toks[gs[h][1]].v

ExecCreate(store, text, toks, a, b) ==
    With(/\ IsWord(toks, a + 2, Kw.if) /\ IsWord(toks, a + 3, Kw.not)
         /\ IsWord(toks, a + 4, Kw.exists), LAMBDA ine :
    With(IF ine THEN a + 5 ELSE a + 2, LAMBDA n :
    With(Groups(toks, ",", n + 2, b - 1), LAMBDA gs :
       IF ~CreateWellFormed(toks, b, n, gs) THEN ExecFail(store)
       ELSE IF TableIndex(store, toks[n].v) # 0
            THEN IF ine THEN ExecOk(store, 0) ELSE ExecFail(store)
       ELSE ExecOk(Append(store,
                [name    |-> toks[n].v,
                 sql     |-> Kw.create \o <<" ">> \o Kw.table \o <<" ">>
                               \o SubSeq(text, toks[n].at, toks[b].at),
                 columns |-> [g \in 1..Len(gs) |-> toks[gs[g][1]].v],
                 pk      |-> IF \E g \in 1..Len(gs) : IsPkDef(toks, gs[g])
                             THEN CHOOSE g \in 1..Len(gs) : IsPkDef(toks, gs[g]) ELSE 0,
                 rows    |-> <<>>,
                 indexes |-> <<>>]), 0))))

\* The value tuples (v, ...), (v, ...) of n values each in tokens j..b: the
\* r-th tuple starts 2n + 2 tokens after the one before it.
TupleWellFormed(toks, j, n, last) ==
    /\ IsPunct(toks, j, "(") /\ IsPunct(toks, j + 2 * n, ")")
    /\ \A m \in 1..n : IsLit(toks, j + 2 * m - 1)
    /\ \A m \in 1..(n - 1) : IsPunct(toks, j + 2 * m, ",")
    /\ last \/ IsPunct(toks, j + 2 * n + 1, ",")

ParseTuples(toks, j, b, n) ==
    With((b - j + 2) \div (2 * n + 2), LAMBDA m :
       IF /\ n >= 1 /\ m >= 1
          /\ b - j + 2 = m * (2 * n + 2)
          /\ \A r \in 1..m : TupleWellFormed(toks, j + (r - 1) * (2 * n + 2), n, r = m)
       THEN [ok |-> TRUE,
             rows |-> [r \in 1..m |->
                         [k \in 1..n |-> toks[j + (r - 1) * (2 * n + 2) + 2 * k - 1].v]]]
       ELSE [ok |-> FALSE, rows |-> <<>>])

\* A new row collides with a row of the table when the two have the
\* same non-null key.
Conflicts(table, row) ==
    /\ table.pk # 0
    /\ row[table.pk] # NullValue
    /\ \E r \in 1..Len(table.rows) : table.rows[r][table.pk] = row[table.pk]

\* The rows inserted one after the other: a collision is skipped under OR
\* IGNORE and fails the statement otherwise.
RECURSIVE InsertRows(_, _, _, _)
InsertRows(table, rows, orIgnore, n) ==
    IF rows = <<>> THEN [ok |-> TRUE, table |-> table, n |-> n]
    ELSE IF Conflicts(table, Head(rows))
         THEN IF orIgnore THEN InsertRows(table, Tail(rows), orIgnore, n)
              ELSE [ok |-> FALSE, table |-> table, n |-> 0]
         ELSE InsertRows([table EXCEPT !.rows = Append(@, Head(rows))],
                         Tail(rows), orIgnore, n + 1)

\* The row of the table's columns a tuple of the listed columns gives.
FullRow(columns, cols, row) ==
    [k \in 1..Len(columns) |->
        IF columns[k] \in Range(cols) THEN row[IndexIn(cols, columns[k])] ELSE NullValue]

\* INSERT [OR IGNORE] INTO name (columns) VALUES tuples, tokens a..b: i is
\* the position of INTO, c of the ")" that closes the column list, gs the
\* columns listed, cols their names, t the table.  A failing statement
\* leaves the table as it was.
InsertWellFormed(store, toks, c, gs, cols, t) ==
    /\ \A g \in 1..Len(gs) : gs[g][1] = gs[g][2] /\ IsName(toks, gs[g][1])
    /\ \A g, h \in 1..Len(gs) : g # h => cols[g] # cols[h]
    /\ IsWord(toks, c + 1, Kw.values)
    /\ t # 0
    /\ \A g \in 1..Len(gs) : cols[g] \in Range(store[t].columns)

InsertInto(store, toks, b, orIgnore, i, c) ==
    With(Groups(toks, ",", i + 3, c - 1), LAMBDA gs :
    With([g \in 1..Len(gs) |-> IF gs[g][1] <= Len(toks) THEN toks[gs[g][1]].v ELSE <<>>],
         LAMBDA cols :
    With(TableIndex(store, toks[i + 1].v), LAMBDA t :
       IF ~InsertWellFormed(store, toks, c, gs, cols, t) THEN ExecFail(store)
       ELSE With(ParseTuples(toks, c + 2, b, Len(gs)), LAMBDA tuples :
               IF ~tuples.ok THEN ExecFail(store)
               ELSE With(InsertRows(store[t],
                                    [r \in 1..Len(tuples.rows) |->
                                        FullRow(store[t].columns, cols, tuples.rows[r])],
                                    orIgnore, 0), LAMBDA ins :
                       IF ~ins.ok THEN ExecFail(store)
                       ELSE ExecOk([store EXCEPT ![t] = ins.table], ins.n))))))

ExecInsert(store, toks, a, b) ==
    With(IsWord(toks, a + 1, Kw.or) /\ IsWord(toks, a + 2, Kw.ignore), LAMBDA orIgnore :
    With(IF orIgnore THEN a + 3 ELSE a + 1, LAMBDA i :
       IF ~(/\ IsWord(toks, i, Kw.into) /\ IsName(toks, i + 1) /\ IsPunct(toks, i + 2, "(")
            /\ \E j \in (i + 3)..b : IsPunct(toks, j, ")"))
       THEN ExecFail(store)
       ELSE InsertInto(store, toks, b, orIgnore, i,
                       CHOOSE j \in (i + 3)..b :
                          /\ IsPunct(toks, j, ")")
                          /\ \A h \in (i + 3)..(j - 1) : ~IsPunct(toks, h, ")"))))

\* CREATE INDEX [IF NOT EXISTS] name ON table (column, ...), tokens a..b of
\* text: the index is a row of sqlite_master of type 'index', kept here with
\* its table as [name, sql].
IndexNames(store) ==
    UNION { { store[k].indexes[i].name : i \in 1..Len(store[k].indexes) } : k \in 1..Len(store) }

ExecCreateIndex(store, text, toks, a, b) ==
    With(/\ IsWord(toks, a + 2, Kw.if) /\ IsWord(toks, a + 3, Kw.not)
         /\ IsWord(toks, a + 4, Kw.exists), LAMBDA ine :
    With(IF ine THEN a + 5 ELSE a + 2, LAMBDA n :
       IF ~(/\ IsName(toks, n) /\ IsWord(toks, n + 1, Kw.on) /\ IsName(toks, n + 2)
            /\ IsPunct(toks, n + 3, "(") /\ IsPunct(toks, b, ")") /\ n + 4 < b
            /\ TableIndex(store, toks[n + 2].v) # 0
            /\ \A j \in (n + 4)..(b - 1) :
                  IF (j - n) % 2 = 0
                  THEN /\ IsName(toks, j)
                       /\ toks[j].v \in Range(store[TableIndex(store, toks[n + 2].v)].columns)
                  ELSE IsPunct(toks, j, ","))
       THEN ExecFail(store)
       ELSE IF toks[n].v \in IndexNames(store) \/ TableIndex(store, toks[n].v) # 0
            THEN IF ine THEN ExecOk(store, 0) ELSE ExecFail(store)
       ELSE ExecOk([store EXCEPT ![TableIndex(store, toks[n + 2].v)].indexes =
                       Append(@, [name |-> toks[n].v,
                                  sql  |-> Kw.create \o <<" ">> \o Kw.index \o <<" ">>
                                             \o SubSeq(text, toks[n].at, toks[b].at)])],
                   0)))

\* DROP TABLE name, tokens a..b.
ExecDrop(store, toks, a, b) ==
    IF b # a + 2 \/ ~IsName(toks, a + 2) \/ TableIndex(store, toks[a + 2].v) = 0
    THEN ExecFail(store)
    ELSE ExecOk(SelectSeq(store, LAMBDA tb : tb.name # toks[a + 2].v), 0)

\* One statement, tokens a..b of text.
ExecStatement(store, text, toks, a, b) ==
    IF \E j \in a..b : toks[j].k = "bad" THEN ExecFail(store)
    ELSE IF IsWord(toks, a, Kw.create) /\ IsWord(toks, a + 1, Kw.table) /\ a + 1 <= b
         THEN ExecCreate(store, text, toks, a, b)
    ELSE IF IsWord(toks, a, Kw.create) /\ IsWord(toks, a + 1, Kw.index) /\ a + 1 <= b
         THEN ExecCreateIndex(store, text, toks, a, b)
    ELSE IF IsWord(toks, a, Kw.insert) /\ a < b THEN ExecInsert(store, toks, a, b)
    ELSE IF IsWord(toks, a, Kw.drop) /\ IsWord(toks, a + 1, Kw.table) /\ a + 1 <= b
         THEN ExecDrop(store, toks, a, b)
    ELSE ExecFail(store)

\* The statements of a query run in order; empty statements are passed
\* over; the first failure throws and keeps what ran before it; the cursor
\* returned is the last statement's.
RECURSIVE ExecGroups(_, _, _, _, _)
ExecGroups(store, text, toks, gs, last) ==
    IF gs = <<>> THEN last
    ELSE IF Head(gs)[1] > Head(gs)[2] THEN ExecGroups(store, text, toks, Tail(gs), last)
    ELSE With(ExecStatement(store, text, toks, Head(gs)[1], Head(gs)[2]), LAMBDA r :
            IF ~r.ok THEN r ELSE ExecGroups(r.store, text, toks, Tail(gs), r))

\* this.storage.sql.exec(query)
SqlExec(store, query) ==
    With(Lex(query), LAMBDA toks :
       ExecGroups(store, query, toks, Groups(toks, ";", 1, Len(toks)), ExecOk(store, 0)))

----------------------------------------------------------------------------
(***************************************************************************)
(* UTF-8: TextEncoder.encode and TextDecoder.decode(value, {stream:true}). *)
(* Every character of the model is one byte, written as the character,     *)
(* except TwoByteChar, whose two bytes are LeadByte and ContByte.          *)
(***************************************************************************)
TwoByteChar == "é"
LeadByte == "C3"
ContByte == "A9"
ReplacementChar == "FFFD"

\* new TextEncoder().encode(text)
Encode(text) ==
    Concat([i \in 1..Len(text) |->
              IF text[i] = TwoByteChar THEN <<LeadByte, ContByte>> ELSE << text[i] >>])

\* What the byte at position i of the bytes `all` decodes to, which depends
\* on the byte before it: a lead byte waits, and is lost when no
\* continuation follows.
DecodedAt(all, i) ==
    IF all[i] = LeadByte
    THEN IF i > 1 /\ all[i - 1] = LeadByte THEN << ReplacementChar >> ELSE <<>>
    ELSE IF all[i] = ContByte
    THEN IF i > 1 /\ all[i - 1] = LeadByte THEN << TwoByteChar >> ELSE << ReplacementChar >>
    ELSE IF i > 1 /\ all[i - 1] = LeadByte THEN << ReplacementChar, all[i] >> ELSE << all[i] >>

\* decoder.decode(value, {stream: true}) with the decoder holding `pending`:
\* the text decoded and the bytes the decoder keeps for the next call.
Decode(pending, value) ==
    With(pending \o value, LAMBDA all :
       [text |-> Concat([i \in 1..Len(all) |-> DecodedAt(all, i)]),
        pending |-> IF all # <<>> /\ all[Len(all)] = LeadByte THEN << LeadByte >> ELSE <<>>])

----------------------------------------------------------------------------
(***************************************************************************)
(* executeStatementSafely and safeExec.                                    *)
(***************************************************************************)
\* s contains p
Contains(s, p) == \E i \in 1..(Len(s) - Len(p) + 1) : SubSeq(s, i, i + Len(p) - 1) = p

\* Position after the keyword w found at position i of s (any case), else 0.
AfterWord(s, i, w) ==
    IF i >= 1 /\ i + Len(w) - 1 <= Len(s) /\ UpperText(SubSeq(s, i, i + Len(w) - 1)) = w
    THEN i + Len(w) ELSE 0

\* Position after \s+ at position i of s, else 0.
AfterSpaces(s, i) ==
    IF i >= 1 /\ i <= Len(s) /\ IsWs(s[i])
    THEN FirstPos(s, i, LAMBDA c : ~IsWs(c)) ELSE 0

\* Position after the words ws, each followed by \s+, at position i, else 0.
RECURSIVE AfterWords(_, _, _)
AfterWords(s, i, ws) ==
    IF ws = <<>> \/ i = 0 THEN i
    ELSE AfterWords(s, AfterSpaces(s, AfterWord(s, i, Head(ws))), Tail(ws))

\* /CREATE\s+TABLE\s+(?:IF\s+NOT\s+EXISTS\s+)?(\w+)/i matched at position i
\* of s: the captured name, <<>> where it does not match.  q is the position
\* after CREATE\s+TABLE\s+, r the position after the optional group.
CreateTableMatchAt(s, i) ==
    With(AfterWords(s, i, <<Kw.create, Kw.table>>), LAMBDA q :
       IF q = 0 THEN <<>>
       ELSE With(AfterWords(s, q, <<Kw.if, Kw.not, Kw.exists>>), LAMBDA r :
               IF r # 0 /\ WordEnd(s, r) >= r THEN SubSeq(s, r, WordEnd(s, r))
               ELSE SubSeq(s, q, WordEnd(s, q))))

\* statement.match(...)[1] at the leftmost match, <<>> for no match.
CreateTableMatch(s) ==
    IF \E i \in 1..Len(s) : CreateTableMatchAt(s, i) # <<>>
    THEN CreateTableMatchAt(s,
            CHOOSE i \in 1..Len(s) :
               /\ CreateTableMatchAt(s, i) # <<>>
               /\ \A j \in 1..(i - 1) : CreateTableMatchAt(s, j) = <<>>)
    ELSE <<>>

\* safeExec(query): the QueryResult, with the store as the query leaves it.
\* An absent field is <<>> (error, warning, tableCreated, query) or 0
\* (rowsAffected).
safeExec(store, query) ==
    With(SqlExec(store, query), LAMBDA r :
       IF r.ok
       THEN [success |-> TRUE, store |-> r.store, rowsAffected |-> r.rowsWritten,
             error |-> <<>>, warning |-> <<>>, tableCreated |-> <<>>,
             query |-> Substring(query, 100)
                         \o (IF Len(query) > 100 THEN <<".", ".", ".">> ELSE <<>>)]
       ELSE [success |-> FALSE, store |-> r.store, rowsAffected |-> 0,
             error |-> << [kind |-> "Query failed",
                           query |-> Substring(query, 100)
                                       \o (IF Len(query) > 100 THEN <<".", ".", ".">>
                                           ELSE <<>>)] >>,
             warning |-> <<>>, tableCreated |-> <<>>, query |-> query])

\* The result of a statement that is not executed.
Skipped(store, kind, trimmedStatement) ==
    [success |-> TRUE, store |-> store, rowsAffected |-> 0, error |-> <<>>,
     warning |-> << [kind |-> kind,
                     text |-> Substring(trimmedStatement, 50) \o <<".", ".", ".">>] >>,
     tableCreated |-> <<>>, query |-> <<>>]

\* A statement handler with no skip conditions: every statement is executed.
executeStatementUnguarded(store, statement) ==
    With(safeExec(store, statement), LAMBDA result :
    With(CreateTableMatch(statement), LAMBDA createTableMatch :
       IF createTableMatch # <<>> /\ result.success
       THEN [result EXCEPT !.tableCreated = << createTableMatch >>]
       ELSE result))

\* A statement that is executed and succeeds records the name the
\* create-table pattern captures in it.
executeStatementSafely(store, statement) ==
    With(Trim(statement), LAMBDA trimmedStatement :
       IF \E w \in {Kw.begin, Kw.commit, Kw.rollback, Kw.pragma} :
              AfterWord(trimmedStatement, 1, w) # 0
       THEN Skipped(store, "Skipped unsupported statement", trimmedStatement)
       ELSE IF AfterWord(trimmedStatement,
                         AfterSpaces(trimmedStatement, AfterWord(trimmedStatement, 1, Kw.drop)),
                         Kw.table) # 0
       THEN Skipped(store, "Skipped DROP TABLE statement", trimmedStatement)
       ELSE IF Contains(UpperText(trimmedStatement), <<"_", "C", "F", "_">>)
       THEN Skipped(store, "Skipped _cf_ table operation", trimmedStatement)
       ELSE With(safeExec(store, statement), LAMBDA result :
            With(CreateTableMatch(statement), LAMBDA createTableMatch :
               IF createTableMatch # <<>> /\ result.success
               THEN [result EXCEPT !.tableCreated = << createTableMatch >>]
               ELSE result)))

----------------------------------------------------------------------------
(***************************************************************************)
(* runFromFile: the streaming import.                                      *)
(*                                                                         *)
(* The locals of a run are a record: pending (the bytes the TextDecoder    *)
(* holds), buffer, executedStatements, errors, warnings, tablesCreated,    *)
(* rowsInserted.  Two fields are history the code does not keep: reads,    *)
(* the number of reads done, and log, which has an entry for every         *)
(* statement passed to executeStatementSafely with the positions of its    *)
(* first and last character in the text received, the read it ran in, its  *)
(* text and the QueryResult it got (without the store).                    *)
(***************************************************************************)
NewImport ==
    [pending |-> <<>>, buffer |-> <<>>, executedStatements |-> 0,
     errors |-> <<>>, warnings |-> <<>>, tablesCreated |-> <<>>,
     rowsInserted |-> 0, reads |-> 0, log |-> <<>>]

\* for (const stmt of statements) { ... }: statements are the splitter's
\* statements of a buffer that starts after `base` characters of the input.
RECURSIVE ExecuteAll(_, _, _, _)
ExecuteAll(l, store, statements, base) ==
    IF statements = <<>> THEN [imp |-> l, store |-> store]
    ELSE With(Head(statements), LAMBDA stmt :
         With(executeStatementSafely(store, stmt.text), LAMBDA result :
         With(result.error # <<>>, LAMBDA isErr :
            ExecuteAll(
               [l EXCEPT
                  !.executedStatements = @ + 1,
                  !.errors = IF isErr THEN @ \o result.error ELSE @,
                  !.warnings = IF isErr THEN @ ELSE @ \o result.warning,
                  !.tablesCreated = IF isErr THEN @ ELSE @ \o result.tableCreated,
                  !.rowsInserted = IF isErr THEN @ ELSE @ + result.rowsAffected,
                  !.log = Append(@, [first |-> base + stmt.first,
                                     last  |-> base + stmt.last,
                                     read  |-> l.reads,
                                     text  |-> stmt.text,
                                     error |-> result.error,
                                     warning |-> result.warning,
                                     tableCreated |-> result.tableCreated,
                                     rowsAffected |-> result.rowsAffected,
                                     query |-> result.query])],
               result.store, Tail(statements), base))))

\* The loop body without buffer = buffer.substring(lastSemicolon + 1).
ProcessedWholeKept(l, store, base, buffer, lastSemicolon) ==
    IF lastSemicolon # 0
    THEN ExecuteAll([l EXCEPT !.buffer = buffer], store, parseSQLStatementsPos(buffer), base)
    ELSE [imp |-> [l EXCEPT !.buffer = buffer], store |-> store]

\* Process complete statements: lastSemicolon is buffer.lastIndexOf(";"),
\* 1-based, 0 where JavaScript gives -1; base is the number of characters
\* received before the buffer's first character.
Processed(l, store, base, buffer, lastSemicolon) ==
    IF lastSemicolon # 0
    THEN ExecuteAll([l EXCEPT !.buffer = SubSeq(buffer, lastSemicolon + 1, Len(buffer))],
                    store, parseSQLStatementsPos(buffer), base)
    ELSE [imp |-> [l EXCEPT !.buffer = buffer], store |-> store]

\* The body of the loop for a read that returns the chunk `value`.
ReadValue(l, store, value, base) ==
    With(Decode(l.pending, value), LAMBDA d :
    With(l.buffer \o d.text, LAMBDA buffer :
       Processed([l EXCEPT !.pending = d.pending, !.reads = @ + 1], store, base, buffer,
                 LastPos(buffer, Len(buffer), LAMBDA c : c = SEMI))))

\* The body of the loop for the read that returns done.
ReadDone(l, store, base) ==
    IF Trim(l.buffer) # <<>>
    THEN ExecuteAll([l EXCEPT !.reads = @ + 1], store, parseSQLStatementsPos(l.buffer), base)
    ELSE [imp |-> [l EXCEPT !.reads = @ + 1], store |-> store]

\* list.length > 0 ? list : undefined
OrUndefined(list) == [defined |-> Len(list) > 0, list |-> list]

\* The ImportResult returned.
ImportResultOf(l) ==
    [success |-> Len(l.errors) = 0,
     executedStatements |-> l.executedStatements,
     errors |-> OrUndefined(l.errors),
     warnings |-> OrUndefined(l.warnings),
     tablesCreated |-> l.tablesCreated,
     rowsInserted |-> l.rowsInserted]

\* The stream error the catch block appends to the errors.
StreamError == [kind |-> "Import stream error", query |-> <<>>]

\* A catch block that returns the stream error alone, with no counts.
ImportFailureBare(l) ==
    [success |-> FALSE,
     executedStatements |-> 0,
     errors |-> [defined |-> TRUE, list |-> << StreamError >>],
     warnings |-> OrUndefined(<<>>),
     tablesCreated |-> <<>>,
     rowsInserted |-> 0]

\* The ImportResult the catch block returns.
ImportFailureOf(l) ==
    [success |-> FALSE,
     executedStatements |-> l.executedStatements,
     errors |-> [defined |-> TRUE, list |-> Append(l.errors, StreamError)],
     warnings |-> OrUndefined(l.warnings),
     tablesCreated |-> l.tablesCreated,
     rowsInserted |-> l.rowsInserted]

----------------------------------------------------------------------------
(***************************************************************************)
(* getExport: the SQL text of the store.                                   *)
(***************************************************************************)
\* String(value) of a number the store holds.
NumberText(value) ==
    (IF value.neg THEN <<"-">> ELSE <<>>) \o Digits(value.i)
       \o (IF value.t = "real" /\ value.f # <<>> THEN <<".">> \o value.f ELSE <<>>)

\* value.replace(/'/g, "''") for a string, b.toString(16).padStart(2, "0")
\* for the bytes of a buffer.
escapeSQLValue(value) ==
    IF value.t = "null" THEN <<"N", "U", "L", "L">>
    ELSE IF value.t = "text"
    THEN <<"'">> \o Concat([i \in 1..Len(value.s) |->
                              IF value.s[i] = "'" THEN <<"'", "'">> ELSE << value.s[i] >>])
                 \o <<"'">>
    ELSE IF value.t \in {"int", "real"} THEN NumberText(value)
    ELSE IF value.t = "bool" THEN (IF value.v THEN <<"1">> ELSE <<"0">>)
    ELSE <<"X", "'">>
            \o Concat([i \in 1..Len(value.b) |->
                         << HexSeq[(value.b[i] \div 16) + 1], HexSeq[(value.b[i] % 16) + 1] >>])
            \o <<"'">>

\* new Date().toISOString() at clock value now (milliseconds after the
\* start of the model's day): always 24 characters.
toISOString(now) ==
    <<"2", "0", "2", "6", "-", "1", "1", "-", "0", "5", "T", "0", "0", ":", "0", "0", ":", "0">> \o Digits((now \div 1000) % 10) \o <<".">>
       \o Digits((now \div 100) % 10) \o Digits((now \div 10) % 10) \o Digits(now % 10)
       \o <<"Z">>

\* name NOT LIKE 'sqlite_%' AND name NOT LIKE '_cf_%': in LIKE, _ stands for
\* any one character and letters match in either case.
IsUserTable(name) ==
    /\ ~(Len(name) >= 7 /\ UpperText(SubSeq(name, 1, 6)) = <<"S", "Q", "L", "I", "T", "E">>)
    /\ ~(Len(name) >= 4 /\ UpperText(SubSeq(name, 2, 3)) = <<"C", "F">>)

\* A store query that throws is a fault of the call: faults.catalog for the
\* query of sqlite_master, and the sets of table names faults.schema,
\* faults.columns and faults.rows for the schema query, PRAGMA table_info
\* and the SELECT of the rows of a table.
NoFaults == [catalog |-> FALSE, schema |-> {}, columns |-> {}, rows |-> {}, cursor |-> {}]

\* The names of the user tables, in catalog order; the empty list when the
\* query fails.
getTableList(store, faults) ==
    IF faults.catalog THEN <<>>
    ELSE With(SelectSeq(store, LAMBDA tb : IsUserTable(tb.name)), LAMBDA tbs :
            [i \in 1..Len(tbs) |-> tbs[i].name])

\* The sql of the row of sqlite_master of type 'table' with the name; <<>>
\* stands for null, which is also what a failed query gives.
getTableSchema(store, tableName, faults) ==
    IF tableName \in faults.schema \/ TableIndex(store, tableName) = 0 THEN <<>>
    ELSE store[TableIndex(store, tableName)].sql

\* PRAGMA table_info(tableName): the column names.  When it fails, the keys
\* of the first row of SELECT * FROM tableName LIMIT 1, and no columns if
\* that fails or gives no row.
getTableColumns(store, tableName, faults) ==
    IF TableIndex(store, tableName) = 0 THEN <<>>
    ELSE IF tableName \notin faults.columns THEN store[TableIndex(store, tableName)].columns
    ELSE IF tableName \in faults.rows \/ store[TableIndex(store, tableName)].rows = <<>>
         THEN <<>>
    ELSE store[TableIndex(store, tableName)].columns

\* SELECT * FROM tableName LIMIT limit OFFSET offset: the rows in rowid
\* order, which is the order the cursor of an unordered scan gives.
SelectPage(store, tableName, limit, offset) ==
    IF TableIndex(store, tableName) = 0 THEN <<>>
    ELSE With(store[TableIndex(store, tableName)].rows, LAMBDA rows :
            SubSeq(rows, offset + 1,
                   IF offset + limit < Len(rows) THEN offset + limit ELSE Len(rows)))

\* schemaSQL.replace(/CREATE TABLE\s+/i, "CREATE TABLE IF NOT EXISTS "): the
\* first CREATE TABLE that whitespace follows is replaced, with all of that
\* whitespace.
IsCreateTableAt(s, p) ==
    /\ p + 12 <= Len(s)
    /\ UpperText(SubSeq(s, p, p + 11)) = <<"C", "R", "E", "A", "T", "E", " ", "T", "A", "B", "L", "E">>
    /\ IsWs(s[p + 12])

\* The schema written as the catalog holds it.
UnsafeSQL(schemaSQL) == schemaSQL

SafeSQL(schemaSQL) ==
    IF \E p \in 1..Len(schemaSQL) : IsCreateTableAt(schemaSQL, p)
    THEN With(CHOOSE p \in 1..Len(schemaSQL) :
                 /\ IsCreateTableAt(schemaSQL, p)
                 /\ \A q \in 1..(p - 1) : ~IsCreateTableAt(schemaSQL, q),
              LAMBDA p :
                 SubSeq(schemaSQL, 1, p - 1) \o <<"C", "R", "E", "A", "T", "E", " ", "T", "A", "B", "L", "E", " ", "I", "F", " ", "N", "O", "T", " ", "E", "X", "I", "S", "T", "S", " ">>
                    \o SubSeq(schemaSQL, FirstPos(schemaSQL, p + 12, LAMBDA c : ~IsWs(c)),
                              Len(schemaSQL)))
    ELSE schemaSQL

\* The locals of a getExport call.  chunks are the texts given to writeText,
\* one chunk of the body each; closed is whether controller.close() was
\* called; inserts is history: for every INSERT statement written, its
\* table, its tuples and its text.
NewExport ==
    [chunks |-> <<>>, exportedTables |-> <<>>, totalRows |-> 0, warnings |-> <<>>,
     tableRowCount |-> 0, inserts |-> <<>>, closed |-> FALSE]

writeText(ex, text) == [ex EXCEPT !.chunks = Append(@, text)]

writeHeader(ex, now) ==
    writeText(ex, <<"-", "-", " ", "D", "a", "t", "a", "b", "a", "s", "e", " ", "E", "x", "p", "o", "r", "t", "\n", "-", "-", " ", "G", "e", "n", "e", "r", "a", "t", "e", "d", ":", " ">> \o toISOString(now) \o <<NL, NL>>)

writeFooter(ex) ==
    With(writeText(ex, <<"\n", "-", "-", " ", "E", "x", "p", "o", "r", "t", " ", "c", "o", "m", "p", "l", "e", "t", "e", "d", "\n", "-", "-", " ", "T", "a", "b", "l", "e", "s", ":", " ">> \o Digits(Len(ex.exportedTables))
                         \o <<"\n", "-", "-", " ", "T", "o", "t", "a", "l", " ", "r", "o", "w", "s", ":", " ">> \o Digits(ex.totalRows) \o <<NL>>),
         LAMBDA ex1 :
            IF Len(ex.warnings) > 0
            THEN writeText(ex1, <<"-", "-", " ", "W", "a", "r", "n", "i", "n", "g", "s", ":", "\n">>
                                  \o Join([i \in 1..Len(ex.warnings) |-> <<"-", "-", " ">> \o ex.warnings[i]],
                                          <<NL>>)
                                  \o <<NL>>)
            ELSE ex1)

\* A table filter in which the blacklist comes first.
SelectedBlacklistFirst(allTables, config) ==
    SelectSeq(allTables,
              LAMBDA tableName :
                 IF Len(config.tableBlacklist) > 0
                 THEN tableName \notin Range(config.tableBlacklist)
                 ELSE IF Len(config.tableWhitelist) > 0
                      THEN tableName \in Range(config.tableWhitelist)
                 ELSE TRUE)

\* The tables the lists of the configuration select.
SelectedTables(allTables, config) ==
    SelectSeq(allTables,
              LAMBDA tableName :
                 IF Len(config.tableWhitelist) > 0 THEN tableName \in Range(config.tableWhitelist)
                 ELSE IF Len(config.tableBlacklist) > 0
                      THEN tableName \notin Range(config.tableBlacklist)
                 ELSE TRUE)

\* Export schema: the loop over the tables from the k-th on.
RECURSIVE ExportSchema(_, _, _, _, _)
ExportSchema(ex, store, tables, k, faults) ==
    IF k > Len(tables) THEN ex
    ELSE With(writeText(ex, <<"\n", "-", "-", " ", "T", "a", "b", "l", "e", " ", "s", "t", "r", "u", "c", "t", "u", "r", "e", " ", "f", "o", "r", " ">> \o tables[k] \o <<NL>>), LAMBDA ex1 :
         With(getTableSchema(store, tables[k], faults), LAMBDA schemaSQL :
            ExportSchema(
               IF schemaSQL # <<>>
               THEN writeText(ex1, SafeSQL(schemaSQL) \o <<";", NL, NL>>)
               ELSE writeText([ex1 EXCEPT !.warnings =
                                  Append(@, <<"C", "o", "u", "l", "d", " ", "n", "o", "t", " ", "e", "x", "p", "o", "r", "t", " ", "s", "c", "h", "e", "m", "a", " ", "f", "o", "r", " ", "t", "a", "b", "l", "e", ":", " ">> \o tables[k])],
                              <<"-", "-", " ", "W", "a", "r", "n", "i", "n", "g", ":", " ", "C", "o", "u", "l", "d", " ", "n", "o", "t", " ", "e", "x", "p", "o", "r", "t", " ", "s", "c", "h", "e", "m", "a", " ", "f", "o", "r", " ">> \o tables[k]
                                 \o <<NL, NL>>),
               store, tables, k + 1, faults)))

\* `(${rowValues.join(", ")})`
ValueString(columns, row) ==
    <<"(">> \o Join([c \in 1..Len(columns) |-> escapeSQLValue(row[c])], <<",", " ">>) \o <<")">>

\* Write the INSERT statement of the tuples currentValues.
WriteInsert(ex, tableName, columns, currentValues) ==
    With(<<"I", "N", "S", "E", "R", "T", " ", "O", "R", " ", "I", "G", "N", "O", "R", "E", " ", "I", "N", "T", "O", " ">> \o tableName \o <<" ", "(">> \o Join(columns, <<",", " ">>)
            \o <<")", " ", "V", "A", "L", "U", "E", "S", "\n">> \o Join(currentValues, <<",", NL>>) \o <<";", NL>>,
         LAMBDA insertStmt :
            [writeText(ex, insertStmt) EXCEPT
                !.inserts = Append(@, [table |-> tableName, values |-> currentValues,
                                       text |-> insertStmt])])

\* The batch being built: b = [ex, currentValues, currentStatementSize].
NewBatch(ex) == [ex |-> ex, currentValues |-> <<>>, currentStatementSize |-> 0]

AddRow(b, valueString, valueStringSize) ==
    [ex |-> [b.ex EXCEPT !.tableRowCount = @ + 1, !.totalRows = @ + 1],
     currentValues |-> Append(b.currentValues, valueString),
     currentStatementSize |-> b.currentStatementSize + valueStringSize]

\* The row step with a flush that resets the batch and writes nothing.
RowSizedUnwritten(b, tableName, columns, valueString, valueStringSize) ==
    AddRow(IF /\ Len(b.currentValues) > 0
              /\ b.currentStatementSize + valueStringSize > MAX_STATEMENT_SIZE
           THEN NewBatch(b.ex) ELSE b,
           valueString, valueStringSize)

\* One row of the page: if adding it would exceed the statement size limit,
\* the current batch is written and reset first.
RowSized(b, tableName, columns, valueString, valueStringSize) ==
    AddRow(IF /\ Len(b.currentValues) > 0
              /\ b.currentStatementSize + valueStringSize > MAX_STATEMENT_SIZE
           THEN NewBatch(WriteInsert(b.ex, tableName, columns, b.currentValues)) ELSE b,
           valueString, valueStringSize)

\* for (const row of result) { ... } from the k-th row of the page on.
RECURSIVE ProcessRows(_, _, _, _, _)
ProcessRows(b, tableName, columns, page, k) ==
    IF k > Len(page) THEN b
    ELSE With(ValueString(columns, page[k]), LAMBDA valueString :
            ProcessRows(RowSized(b, tableName, columns, valueString,
                                 Len(Encode(valueString))),
                        tableName, columns, page, k + 1))

\* while (true) { ... }: the pages from offset on.  After the rows of a page
\* any remaining values are written; batchRowCount is the number of rows of
\* the page.
RECURSIVE ExportPages(_, _, _, _, _)
ExportPages(ex, store, tableName, columns, offset) ==
    With(SelectPage(store, tableName, BATCH_SIZE, offset), LAMBDA page :
    With(ProcessRows(NewBatch(ex), tableName, columns, page, 1), LAMBDA b :
    With(IF Len(b.currentValues) > 0
         THEN WriteInsert(b.ex, tableName, columns, b.currentValues) ELSE b.ex, LAMBDA ex1 :
       IF Len(page) < BATCH_SIZE THEN ex1
       ELSE ExportPages(ex1, store, tableName, columns, offset + BATCH_SIZE))))

\* for (const row of result): the cursor of the first page of a table of
\* faults.cursor gives its first row and throws when asked for the second.
CursorThrows(store, tableName, faults) ==
    tableName \in faults.cursor /\ Len(SelectPage(store, tableName, BATCH_SIZE, 0)) >= 2

\* The data step of a table whose failing SELECT leaves no trace.
TableDataSilent(ex, store, tableName, columns, faults) ==
    IF Len(columns) = 0 \/ tableName \in faults.rows THEN ex
    ELSE ExportPages([ex EXCEPT !.tableRowCount = 0], store, tableName, columns, 0)

\* The data of one table, after its heading.  A SELECT that throws is
\* caught: a warning and an error note are written for the table.  So is a
\* cursor that throws after its first row: the row is in currentValues and
\* counted, the loop is left before the values are written.
TableData(ex, store, tableName, columns, faults) ==
    IF Len(columns) = 0
    THEN [ex EXCEPT !.warnings =
             Append(@, <<"C", "o", "u", "l", "d", " ", "n", "o", "t", " ", "e", "x", "p", "o", "r", "t", " ", "d", "a", "t", "a", " ", "f", "o", "r", " ", "t", "a", "b", "l", "e", ":", " ">> \o tableName
                          \o <<" ", "-", " ", "n", "o", " ", "c", "o", "l", "u", "m", "n", "s", " ", "f", "o", "u", "n", "d">>)]
    ELSE IF tableName \in faults.rows
    THEN writeText([ex EXCEPT !.warnings =
                       Append(@, <<"F", "a", "i", "l", "e", "d", " ", "t", "o", " ", "e", "x", "p", "o", "r", "t", " ", "d", "a", "t", "a", " ", "f", "r", "o", "m", " ">> \o tableName \o <<":", " ", "E", "r", "r", "o", "r">>)],
                   <<"-", "-", " ", "E", "r", "r", "o", "r", " ", "e", "x", "p", "o", "r", "t", "i", "n", "g", " ", "d", "a", "t", "a", " ", "f", "r", "o", "m", " ">> \o tableName \o <<":", " ", "E", "r", "r", "o", "r">> \o <<NL, NL>>)
    ELSE IF CursorThrows(store, tableName, faults)
    THEN writeText([ProcessRows(NewBatch([ex EXCEPT !.tableRowCount = 0]), tableName, columns,
                                SubSeq(SelectPage(store, tableName, BATCH_SIZE, 0), 1, 1),
                                1).ex
                      EXCEPT !.warnings =
                         Append(@, <<"F", "a", "i", "l", "e", "d", " ", "t", "o", " ", "e", "x", "p", "o", "r", "t", " ", "d", "a", "t", "a", " ", "f", "r", "o", "m", " ">> \o tableName \o <<":", " ", "E", "r", "r", "o", "r">>)],
                   <<"-", "-", " ", "E", "r", "r", "o", "r", " ", "e", "x", "p", "o", "r", "t", "i", "n", "g", " ", "d", "a", "t", "a", " ", "f", "r", "o", "m", " ">> \o tableName \o <<":", " ", "E", "r", "r", "o", "r">> \o <<NL, NL>>)
    ELSE With(ExportPages([ex EXCEPT !.tableRowCount = 0], store, tableName, columns, 0),
              LAMBDA ex1 :
                 IF ex1.tableRowCount > 0
                 THEN writeText(ex1, <<"-", "-", " ">> \o Digits(ex1.tableRowCount) \o <<" ", "r", "o", "w", "s", " ", "e", "x", "p", "o", "r", "t", "e", "d", " ", "f", "r", "o", "m", " ">>
                                       \o tableName \o <<NL, NL>>)
                 ELSE ex1)

\* Export data: the loop over the tables from the k-th on.
RECURSIVE ExportData(_, _, _, _, _)
ExportData(ex, store, tables, k, faults) ==
    IF k > Len(tables) THEN ex
    ELSE ExportData(TableData(writeText(ex, <<"\n", "-", "-", " ", "D", "a", "t", "a", " ", "f", "o", "r", " ", "t", "a", "b", "l", "e", " ">> \o tables[k] \o <<NL>>),
                              store, tables[k], getTableColumns(store, tables[k], faults),
                              faults),
                    store, tables, k + 1, faults)

\* config = {}: the defaults of the ExportConfig.
DefaultConfig ==
    [includeSchema |-> TRUE, includeData |-> TRUE, tableWhitelist |-> <<>>,
     tableBlacklist |-> <<>>]

\* A start callback that writes the data of the tables before their schema.
getExportDataFirst(store, config, now, faults) ==
    With(getTableList(store, faults), LAMBDA allTables :
    With(SelectedTables(allTables, config), LAMBDA tables :
    With([writeHeader(NewExport, now) EXCEPT !.exportedTables = tables], LAMBDA ex0 :
    With(IF config.includeData THEN ExportData(ex0, store, tables, 1, faults) ELSE ex0,
         LAMBDA ex1 :
       [writeFooter(IF config.includeSchema THEN ExportSchema(ex1, store, tables, 1, faults)
                    ELSE ex1)
          EXCEPT !.closed = TRUE]))))

\* The stream's start callback run to the end, at clock value now, with the
\* store queries of faults failing.
getExport(store, config, now, faults) ==
    With(getTableList(store, faults), LAMBDA allTables :
    With(SelectedTables(allTables, config), LAMBDA tables :
    With([writeHeader(NewExport, now) EXCEPT
             !.warnings = IF Len(allTables) = 0
                          THEN Append(@, <<"N", "o", " ", "t", "a", "b", "l", "e", "s", " ", "f", "o", "u", "n", "d", " ", "o", "r", " ", "c", "o", "u", "l", "d", " ", "n", "o", "t", " ", "a", "c", "c", "e", "s", "s", " ", "t", "a", "b", "l", "e", " ", "l", "i", "s", "t">>)
                          ELSE @,
             !.exportedTables = tables], LAMBDA ex0 :
    With(IF config.includeSchema THEN ExportSchema(ex0, store, tables, 1, faults) ELSE ex0,
         LAMBDA ex1 :
       [writeFooter(IF config.includeData THEN ExportData(ex1, store, tables, 1, faults)
                    ELSE ex1)
          EXCEPT !.closed = TRUE]))))

\* A stream whose k-th chunk is generated from the store when it is read.
QueuedChunkLazy(call, store, now, k) ==
    With(getExport(store, call.config, now, call.faults).chunks, LAMBDA chunks :
       IF k <= Len(chunks) THEN chunks[k] ELSE <<>>)

\* reader.read() of the body of a getExport call: the k-th chunk of the
\* queue that the start callback filled when the stream was made, whatever
\* the store and the clock are when it is read.
QueuedChunk(call, store, now, k) == call.ex.chunks[k]

\* A getExport call and what it was called with.
ExportCall(store, config, now, faults) ==
    [ex |-> getExport(store, config, now, faults), store |-> store, at |-> now,
     config |-> config, faults |-> faults]

\* The bytes of the body: the chunks in order, each encoded.
BodyOf(ex) == Concat([i \in 1..Len(ex.chunks) |-> Encode(ex.chunks[i])])

----------------------------------------------------------------------------
(***************************************************************************)
(* dump: the two passes of the upload.                                     *)
(***************************************************************************)
\* Pass 1: exactSize += value.length over the chunks read, from the k-th.
RECURSIVE ExactSize(_, _)
ExactSize(chunks, k) ==
    IF k > Len(chunks) THEN 0 ELSE Len(Encode(chunks[k])) + ExactSize(chunks, k + 1)

\* Pass 2 into new FixedLengthStream(exactSize), a stream of the platform:
\* a write that takes the bytes written past the length given fails, and so
\* does close() before that many bytes were written.  The result is the
\* number of bytes the stream took and whether write or close failed.
RECURSIVE WriteChunks(_, _, _, _)
WriteChunks(chunks, k, exactSize, written) ==
    IF k > Len(chunks) THEN [written |-> written, failed |-> written # exactSize]
    ELSE IF written + Len(Encode(chunks[k])) > exactSize
         THEN [written |-> written, failed |-> TRUE]
    ELSE WriteChunks(chunks, k + 1, exactSize, written + Len(Encode(chunks[k])))

\* The steps of dump up to the end of pass 1, in the order of the code: the
\* bucket is looked up, the export is started, its stream is drained.
Step(e) == [e |-> e, k |-> 0]

Pass1Steps(bucket, drained) ==
    IF ~bucket THEN << Step("bucket missing") >>
    ELSE << Step("bucket found"), Step("export 1 started") >>
            \o (IF drained THEN << Step("export 1 drained") >> ELSE <<>>)

\* Pass 2 with the upload started after the chunks were written.
Pass2StepsLatePut(n, closed) ==
    << Step("sink created"), Step("export 2 started") >>
       \o [k \in 1..n |-> [e |-> "write", k |-> k]]
       \o << Step("put started"), Step("sink closed") >>
       \o (IF closed THEN << Step("upload awaited") >> ELSE <<>>)

\* The steps of pass 2: the fixed-length stream is created, the upload is
\* started, the export is started, the first n chunks are written in order,
\* the writer is closed in the finally block and, when nothing was thrown,
\* the upload is awaited.
Pass2Steps(n, closed) ==
    << Step("sink created"), Step("put started"), Step("export 2 started") >>
       \o [k \in 1..n |-> [e |-> "write", k |-> k]]
       \o << Step("sink closed") >>
       \o (IF closed THEN << Step("upload awaited") >> ELSE <<>>)

\* The number of chunks the fixed-length stream took.
ChunksWritten(chunks, exactSize) ==
    Cardinality({ j \in 1..Len(chunks) : ExactSize(SubSeq(chunks, 1, j), 1) <= exactSize })

\* What dump's catch block returns.
DumpFailure == [success |-> FALSE, size |-> 0, warnings |-> TRUE]

\* btoa and atob.  The credentials are made of letters, digits and ":",
\* whose character codes CharCode gives; atob gives the bytes decoded, which
\* are the character codes of the string it returns, and ok = FALSE where
\* it throws.  atob drops white space and one or two "=" at the end of a
\* text whose length is a multiple of 4.
Base64Chars == UpperSeq \o LowerSeq \o DigitSeq \o <<"+", "/">>

CharCode(c) ==
    IF c \in Range(UpperSeq) THEN 64 + IndexIn(UpperSeq, c)
    ELSE IF c \in Range(LowerSeq) THEN 96 + IndexIn(LowerSeq, c)
    ELSE IF c \in Range(DigitSeq) THEN 47 + IndexIn(DigitSeq, c)
    ELSE 58

CharCodes(s) == [i \in 1..Len(s) |-> CharCode(s[i])]

\* The 24 bits of the g-th group of three bytes, and of four sextets.
Bits24OfBytes(s, g) ==
    (IF 3 * g + 1 <= Len(s) THEN CharCode(s[3 * g + 1]) * 65536 ELSE 0)
       + (IF 3 * g + 2 <= Len(s) THEN CharCode(s[3 * g + 2]) * 256 ELSE 0)
       + (IF 3 * g + 3 <= Len(s) THEN CharCode(s[3 * g + 3]) ELSE 0)

Bits24OfSextets(d, g) ==
    (IF 4 * g + 1 <= Len(d) THEN (IndexIn(Base64Chars, d[4 * g + 1]) - 1) * 262144 ELSE 0)
       + (IF 4 * g + 2 <= Len(d) THEN (IndexIn(Base64Chars, d[4 * g + 2]) - 1) * 4096 ELSE 0)
       + (IF 4 * g + 3 <= Len(d) THEN (IndexIn(Base64Chars, d[4 * g + 3]) - 1) * 64 ELSE 0)
       + (IF 4 * g + 4 <= Len(d) THEN IndexIn(Base64Chars, d[4 * g + 4]) - 1 ELSE 0)

btoa(s) ==
    [k \in 1..(4 * ((Len(s) + 2) \div 3)) |->
        IF (k - 1) % 4 > Len(s) - 3 * ((k - 1) \div 4) THEN "="
        ELSE Base64Chars[((Bits24OfBytes(s, (k - 1) \div 4)
                            \div <<262144, 4096, 64, 1>>[((k - 1) % 4) + 1]) % 64) + 1]]

atob(data) ==
    With(SelectSeq(data, LAMBDA c : ~IsWs(c)), LAMBDA d0 :
    With(IF Len(d0) % 4 = 0 /\ Len(d0) > 0 /\ d0[Len(d0)] = "="
         THEN SubSeq(d0, 1, Len(d0) - (IF d0[Len(d0) - 1] = "=" THEN 2 ELSE 1))
         ELSE d0, LAMBDA d :
       IF Len(d) % 4 = 1 \/ \E i \in 1..Len(d) : d[i] \notin Range(Base64Chars)
       THEN [ok |-> FALSE, bytes |-> <<>>]
       ELSE [ok |-> TRUE,
             bytes |-> [j \in 1..((Len(d) * 6) \div 8) |->
                          (Bits24OfSextets(d, (j - 1) \div 3)
                             \div <<65536, 256, 1>>[((j - 1) % 3) + 1]) % 256]]))

\* A gate that lets every request of a publicly readable object in.
checkAuthPublic(config, request, requireAuth) ==
    \/ config.secret = <<>>
    \/ config.isReadonlyPublic
    \/ request.apiKey = config.secret

\* checkAuth(request, requireAuth).  config.secret is <<>> when no secret is
\* configured; request.authorization and request.apiKey are <<>> when the
\* header and the query parameter are absent.
checkAuth(config, request, requireAuth) ==
    IF config.secret = <<>> THEN TRUE
    ELSE IF ~requireAuth /\ config.isReadonlyPublic THEN TRUE
    ELSE With(IF request.authorization # <<>>
                 /\ StartsWith(request.authorization, <<"B", "a", "s", "i", "c">>)
              THEN atob(SubSeq(request.authorization, 7, Len(request.authorization)))
              ELSE [ok |-> FALSE, bytes |-> <<>>], LAMBDA credentials :
            \/ credentials.ok /\ credentials.bytes = CharCodes(config.secret)
            \/ request.apiKey = config.secret)

\* Transferable.fetch up to the routing: "unauthorized" for the 401 answer,
\* else the operation the method and the path select, "super" being the
\* fetch of the wrapped class or the 404 answer.
IsReadonly(request) == request.method = "GET" /\ request.path = "/transfer/export"

\* A fetch that checks the credentials of the transfer endpoints only.
RouteTransferGated(config, request) ==
    IF request.path \notin {"/transfer/export", "/transfer/import", "/transfer/import/u",
                            "/transfer/clear", "/transfer/dump"}
    THEN "super"
    ELSE IF ~checkAuth(config, request, ~IsReadonly(request)) THEN "unauthorized"
    ELSE IF IsReadonly(request) THEN "export"
    ELSE IF request.path = "/transfer/import" /\ request.method = "POST" THEN "import"
    ELSE IF request.path = "/transfer/import/u" /\ request.method = "GET" THEN "importFromUrl"
    ELSE IF request.path = "/transfer/clear" /\ request.method = "POST" THEN "clear"
    ELSE IF request.path = "/transfer/dump" /\ request.method = "POST" THEN "dump"
    ELSE "super"

Route(config, request) ==
    IF ~checkAuth(config, request, ~IsReadonly(request)) THEN "unauthorized"
    ELSE IF IsReadonly(request) THEN "export"
    ELSE IF request.path = "/transfer/import" /\ request.method = "POST" THEN "import"
    ELSE IF request.path = "/transfer/import/u" /\ request.method = "GET" THEN "importFromUrl"
    ELSE IF request.path = "/transfer/clear" /\ request.method = "POST" THEN "clear"
    ELSE IF request.path = "/transfer/dump" /\ request.method = "POST" THEN "dump"
    ELSE "super"

\* runFromFile on a body that arrives as one chunk.
runFromFileOnce(store, body) ==
    With(ReadValue(NewImport, store, body, 0), LAMBDA r :
       ReadDone(r.imp, r.store, Len(Decode(<<>>, body).text) - Len(r.imp.buffer)))

\* The object before a request: no configuration, no request, an alarm set.
NoGate ==
    [config |-> [secret |-> <<>>, isReadonlyPublic |-> FALSE],
     request |-> [method |-> "GET", path |-> "/", authorization |-> <<>>, apiKey |-> <<>>,
                  body |-> <<>>],
     served |-> "none", status |-> 0, alarm |-> FALSE]

\* importFromUrl of the cursor variant.  The remote database is a store;
\* faults names what fails: list (the table list query), and per table
\* schema (the schema query throws), missing (it gives no row), create (the
\* local CREATE TABLE fails), columns (PRAGMA table_info gives no row), rows
\* (the data cursor gives its first row, if any, and throws).  The locals
\* are a record; an error or a warning is [kind, table].
NoCursorFaults ==
    [list |-> FALSE, schema |-> {}, missing |-> {}, create |-> {}, columns |-> {},
     rows |-> {}]

NewUrlImport(store) ==
    [store |-> store, errors |-> <<>>, warnings |-> <<>>, tablesCreated |-> <<>>,
     rowsImported |-> 0]

\* A row step that counts every insert that did not fail.
ImportRowAlwaysCounted(r, tableName, columnNames, row) ==
    With(TableIndex(r.store, tableName), LAMBDA t :
       IF t = 0 \/ \E c \in 1..Len(columnNames) : columnNames[c] \notin Range(r.store[t].columns)
       THEN r
       ELSE With(InsertRows(r.store[t],
                            << FullRow(r.store[t].columns, columnNames, row) >>, TRUE, 0),
                 LAMBDA ins :
                    [r EXCEPT !.store[t] = ins.table, !.rowsImported = @ + 1]))

\* insertResult = this.safeExec(insertSQL, ...values): INSERT OR IGNORE of
\* the row's values in column order.  A failing insert is not counted; an
\* insert counts when rowsAffected > 0.
ImportRow(r, tableName, columnNames, row) ==
    With(TableIndex(r.store, tableName), LAMBDA t :
       IF t = 0 \/ \E c \in 1..Len(columnNames) : columnNames[c] \notin Range(r.store[t].columns)
       THEN r
       ELSE With(InsertRows(r.store[t],
                            << FullRow(r.store[t].columns, columnNames, row) >>, TRUE, 0),
                 LAMBDA ins :
                    [r EXCEPT !.store[t] = ins.table,
                              !.rowsImported = IF ins.n > 0 THEN @ + 1 ELSE @]))

\* for await (const row of dataCursor) { ... } from the k-th row on.
RECURSIVE ImportRows(_, _, _, _, _)
ImportRows(r, tableName, columnNames, rows, k) ==
    IF k > Len(rows) THEN r
    ELSE ImportRows(ImportRow(r, tableName, columnNames, rows[k]),
                    tableName, columnNames, rows, k + 1)

\* The body of the loop over the tables: schema, local create, columns,
\* rows.  What is thrown inside is caught as an error of the table.
ImportTable(r, table, faults) ==
    IF table.name \in faults.schema
    THEN [r EXCEPT !.errors = Append(@, [kind |-> "Failed to process table",
                                         table |-> table.name])]
    ELSE IF table.name \in faults.missing
    THEN [r EXCEPT !.warnings = Append(@, [kind |-> "Could not get schema for table",
                                           table |-> table.name])]
    ELSE IF table.name \in faults.create \/ ~safeExec(r.store, SafeSQL(table.sql)).success
    THEN [r EXCEPT !.errors = Append(@, [kind |-> "Failed to create table",
                                         table |-> table.name])]
    ELSE With([r EXCEPT !.store = safeExec(r.store, SafeSQL(table.sql)).store,
                        !.tablesCreated = Append(@, table.name)], LAMBDA r1 :
            IF table.name \in faults.columns
            THEN [r1 EXCEPT !.warnings = Append(@, [kind |-> "No columns found for table",
                                                    table |-> table.name])]
            ELSE IF table.name \in faults.rows
            THEN [ImportRows(r1, table.name, table.columns,
                             SubSeq(table.rows, 1, IF Len(table.rows) > 0 THEN 1 ELSE 0), 1)
                    EXCEPT !.errors = Append(@, [kind |-> "Failed to process table",
                                                 table |-> table.name])]
            ELSE ImportRows(r1, table.name, table.columns, table.rows, 1))

\* for (const table of tables) { ... } from the k-th table on.
RECURSIVE ImportTables(_, _, _, _, _)
ImportTables(r, remote, tables, k, faults) ==
    IF k > Len(tables) THEN r
    ELSE ImportTables(ImportTable(r, remote[TableIndex(remote, tables[k])], faults),
                      remote, tables, k + 1, faults)

\* importFromUrl(url, authHeader) on the local store: the ImportResult and
\* the store it leaves.
importFromUrl(store, remote, faults) ==
    IF faults.list
    THEN [success |-> FALSE, store |-> store, tablesCreated |-> <<>>, rowsImported |-> 0,
          errors |-> OrUndefined(<< [kind |-> "Import failed", table |-> <<>>] >>),
          warnings |-> OrUndefined(<<>>)]
    ELSE IF getTableList(remote, NoFaults) = <<>>
    THEN [success |-> TRUE, store |-> store, tablesCreated |-> <<>>, rowsImported |-> 0,
          errors |-> OrUndefined(<<>>),
          warnings |-> OrUndefined(<< [kind |-> "No tables found in remote database",
                                       table |-> <<>>] >>)]
    ELSE With(ImportTables(NewUrlImport(store), remote, getTableList(remote, NoFaults), 1,
                           faults), LAMBDA r :
            [success |-> Len(r.errors) = 0, store |-> r.store,
             tablesCreated |-> r.tablesCreated, rowsImported |-> r.rowsImported,
             errors |-> OrUndefined(r.errors), warnings |-> OrUndefined(r.warnings)])

\* No importFromUrl call.
NoUrlImport ==
    [faults |-> NoCursorFaults, before |-> <<>>, done |-> FALSE, result |-> "none"]

\* The clone call before it starts, and what clone resolves to.
NoClone ==
    [pc |-> "idle",
     config |-> [clearOnImport |-> FALSE, clearAfterExport |-> FALSE],
     requests |-> <<>>, faults |-> {}, importResult |-> <<>>, produced |-> <<>>,
     result |-> [settled |-> "pending", success |-> FALSE, error |-> FALSE,
                 importResult |-> <<>>, clearResults |-> FALSE]]

\* A fetch of clone is sent: the request log grows.
CloneRequest(c, step) == [c EXCEPT !.requests = Append(@, step)]

\* A catch block that notes the failure and lets the call go on.
CloneWarned(c, step, kind) ==
    [c EXCEPT !.faults = @ \cup {[step |-> step, kind |-> kind]}]

\* clone's catch block: whatever was thrown becomes the error message.
CloneCaught(c, step, kind) ==
    [c EXCEPT !.pc = "done",
              !.faults = @ \cup {[step |-> step, kind |-> kind]},
              !.result = [settled |-> "resolved", success |-> FALSE,
                          error |-> TRUE, importResult |-> <<>>,
                          clearResults |-> FALSE]]

\* clone's return statement: success is the import result's flag.
CloneReturned(c, cleared) ==
    [c EXCEPT !.pc = "done",
              !.result = [settled |-> "resolved",
                          success |-> c.importResult[1].success,
                          error |-> FALSE, importResult |-> c.importResult,
                          clearResults |-> cleared]]

\* An import step that reads the answer's body whatever its status.
ImportAnsweredUnchecked(c, answer, body) ==
    IF answer = "network"
    THEN CloneCaught(c, "import", answer)
    ELSE IF body = "unparsable"
    THEN CloneCaught(c, "import", "unparsable")
    ELSE [c EXCEPT !.pc = "clear", !.importResult = <<[success |-> body = "success"]>>]

\* if (!importResponse.ok) throw ...; importResult = await
\* importResponse.json()
ImportAnswered(c, answer, body) ==
    IF answer # "ok"
    THEN CloneCaught(c, "import", answer)
    ELSE IF body = "unparsable"
    THEN CloneCaught(c, "import", "unparsable")
    ELSE [c EXCEPT !.pc = "clear", !.importResult = <<[success |-> body = "success"]>>]

\* The result of a dump that does not look at the writer.
DumpResultUnchecked(exactSize, sink, uploaded, ex) ==
    IF ~uploaded
    THEN [success |-> FALSE, size |-> 0, warnings |-> TRUE]
    ELSE [success |-> TRUE, size |-> exactSize, warnings |-> Len(ex.warnings) > 0]

\* What dump returns: the catch block's record when the writer or the
\* upload failed.
DumpResult(exactSize, sink, uploaded, ex) ==
    IF sink.failed \/ ~uploaded
    THEN DumpFailure
    ELSE [success |-> TRUE, size |-> exactSize, warnings |-> Len(ex.warnings) > 0]

----------------------------------------------------------------------------
(***************************************************************************)
(* State.                                                                  *)
(***************************************************************************)
VARIABLES
    reqBody,       \* the bytes of the import request's body not yet read
    imp,           \* the locals of the runFromFile call
    ipc,           \* where the transfer is: "exporting", "reading", "finalized"
    importResult,  \* the ImportResult returned, "none" before
    dstStore,      \* the store of the importing object
    received,      \* history: the text decoded so far
    lastRead,      \* history: the last chunk read, [n, value, seen], seen
                   \* being the buffer the splitter was run on; n = 0 before
    chunksLeft,    \* the number of chunks the stream may still deliver
    plan,          \* history: the statements the request body was made of
    srcStore,      \* the store of the exporting object
    now,           \* the wall clock, in milliseconds
    exported,      \* history: the last getExport call, [ex, store, at, config,
                   \* faults]
    dpc,           \* where the dump call is: "idle", "start", "sized", "done"
    exactSize,     \* dump's exactSize
    sink,          \* the fixed-length stream of pass 2, [written, failed]
    dumpResult,    \* what dump returned, NoDump before
    pass1,         \* history: the getExport call of pass 1, [ex, store, at]
    dumpTrace,     \* history: the steps of the dump call in the order they
                   \* were taken, [e, k]
    dumpFaults,    \* the faults the environment of the dump call holds, and
                   \* "upload" once the bucket rejected the upload
    gate,          \* the object behind Transferable.fetch: [config, request,
                   \* served, status, alarm]
    urlImport,     \* the importFromUrl call of the cursor variant: [faults,
                   \* before, done, result]
    clone          \* the clone call: [pc, config, requests, faults,
                   \* importResult, produced, result]; produced is history:
                   \* the import result the destination made and the status
                   \* it answered with

importVars == <<reqBody, imp, ipc, importResult, dstStore, received, lastRead,
                chunksLeft, plan>>
exportVars == <<srcStore, now, exported>>
dumpVars == <<dpc, exactSize, sink, dumpResult, pass1, dumpFaults, dumpTrace>>
cloneVars == <<clone>>
gateVars == <<gate>>
cursorVars == <<urlImport>>
vars == <<reqBody, imp, ipc, importResult, dstStore, received, lastRead,
          chunksLeft, plan, srcStore, now, exported, dpc, exactSize, sink,
          dumpResult, pass1, dumpFaults,
         dumpTrace, clone, gate, urlImport>>

NoRead == [n |-> 0, value |-> <<>>, seen |-> <<>>]
NoCall == [ex |-> NewExport, store |-> <<>>, at |-> 0, config |-> DefaultConfig,
           faults |-> NoFaults]
NoSink == [written |-> 0, failed |-> FALSE]
NoDump == [success |-> FALSE, size |-> 0, warnings |-> FALSE]

\* reader.read() returns a chunk: any non-empty prefix of what is left, all
\* of it when the stream has one chunk left.
ChunkRead(k, r) ==
    /\ reqBody' = SubSeq(reqBody, k + 1, Len(reqBody))
    /\ imp' = r.imp
    /\ dstStore' = r.store
    /\ received' = received \o Decode(imp.pending, SubSeq(reqBody, 1, k)).text
    /\ lastRead' = [n |-> r.imp.reads, value |-> SubSeq(reqBody, 1, k),
                    seen |-> imp.buffer \o Decode(imp.pending, SubSeq(reqBody, 1, k)).text]

ReadChunk ==
    /\ ipc = "reading"
    /\ reqBody # <<>>
    /\ \E k \in (IF chunksLeft = 1 THEN Len(reqBody) ELSE 1)..Len(reqBody) :
          ChunkRead(k, ReadValue(imp, dstStore, SubSeq(reqBody, 1, k),
                                 Len(received) - Len(imp.buffer)))
    /\ chunksLeft' = chunksLeft - 1
    /\ UNCHANGED <<ipc, importResult, plan, exportVars, dumpVars, cloneVars, gateVars, cursorVars>>

\* reader.read() returns done: the rest of the buffer is processed and the
\* result returned.
EndRead(r) ==
    /\ imp' = r.imp
    /\ dstStore' = r.store
    /\ importResult' = ImportResultOf(r.imp)

ReadEnd ==
    /\ ipc = "reading"
    /\ reqBody = <<>>
    /\ EndRead(ReadDone(imp, dstStore, Len(received) - Len(imp.buffer)))
    /\ ipc' = "finalized"
    /\ UNCHANGED <<reqBody, received, lastRead, chunksLeft, plan, exportVars, dumpVars, cloneVars, gateVars, cursorVars>>

\* The importing object before the import, with no export and no dump.
ImportIdle ==
    /\ imp = NewImport
    /\ importResult = "none"
    /\ dstStore = <<>>
    /\ received = <<>>
    /\ lastRead = NoRead

ExportIdle ==
    /\ srcStore = <<>>
    /\ now = 0
    /\ exported = NoCall

DumpIdle ==
    /\ dpc = "idle"
    /\ exactSize = 0
    /\ sink = NoSink
    /\ dumpResult = NoDump
    /\ pass1 = NoCall
    /\ dumpFaults = {}
    /\ dumpTrace = <<>>

\* No clone call is running.
CloneIdle == clone = NoClone

\* No request has come in.
GateIdle == gate = NoGate

\* importFromUrl has not been called.
CursorIdle == urlImport = NoUrlImport

(***************************************************************************)
(* SpecSplit: runFromFile on every text of at most MaxLen characters of    *)
(* SplitAlphabet, cut into chunks in every way.                            *)
(***************************************************************************)
SplitAlphabet == {"a", SEMI, NL, "-", " ", TwoByteChar}

TextsUpTo(A, n) == UNION { [1..k -> A] : k \in 0..n }

InitSplit ==
    /\ reqBody \in { Encode(t) : t \in TextsUpTo(SplitAlphabet, MaxLen) }
    /\ ipc = "reading"
    /\ chunksLeft = Len(reqBody) + 1
    /\ plan = <<>>
    /\ ImportIdle /\ ExportIdle /\ DumpIdle /\ CloneIdle /\ GateIdle /\ CursorIdle

NextSplit == ReadChunk \/ ReadEnd

SpecSplit == InitSplit /\ [][NextSplit]_vars

(***************************************************************************)
(* SpecImport: runFromFile on every script of at most MaxStmts statements  *)
(* of Pieces, read in at most MaxChunks chunks cut at any byte.            *)
(***************************************************************************)
StCreate == <<"C","R","E","A","T","E"," ","T","A","B","L","E"," ","t"," ","(","a",")",";","\n">>
StInsert1 == <<"I","N","S","E","R","T"," ","I","N","T","O"," ","t"," ","(","a",")"," ","V","A","L","U","E","S"," ","(","1",")",";","\n">>
StInsert2 == <<"I","N","S","E","R","T"," ","I","N","T","O"," ","t"," ","(","a",")"," ","V","A","L","U","E","S","\n","(","'","é","'",")",";","\n">>
StBad == <<"I","N","S","E","R","T"," ","I","N","T","O"," ","t"," ","(","a",")"," ","V","A","L","U","E","S"," ","(",";","\n">>

Pieces == {StCreate, StInsert1, StInsert2, StBad}

Plans == UNION { [1..k -> Pieces] : k \in 1..MaxStmts }

InitImport ==
    /\ plan \in Plans
    /\ reqBody = Encode(Concat(plan))
    /\ ipc = "reading"
    /\ chunksLeft = MaxChunks
    /\ ImportIdle /\ ExportIdle /\ DumpIdle /\ CloneIdle /\ GateIdle /\ CursorIdle

NextImport == ReadChunk \/ ReadEnd

SpecImport == InitImport /\ [][NextImport]_vars

(***************************************************************************)
(* SpecTransfer: the body getExport writes for a store is read by          *)
(* runFromFile of an object with an empty store, in at most MaxChunks      *)
(* chunks cut at any byte.  The store has one table of one column and at   *)
(* most MaxTransferRows rows, whose values are of every storage class; the *)
(* texts are all texts of at most MaxText characters of TextAlphabet.      *)
(***************************************************************************)
TextAlphabet == {"a", "'", SEMI, NL, TwoByteChar}

TransferValues ==
    { [t |-> "null"], [t |-> "int", neg |-> FALSE, i |-> 1],
      [t |-> "real", neg |-> TRUE, i |-> 2, f |-> <<"5">>],
      [t |-> "blob", b |-> <<10, 255>>] }
       \cup { [t |-> "text", s |-> x] : x \in TextsUpTo(TextAlphabet, MaxText) }

\* The store after CREATE TABLE t (a) and the insertion of the rows.
TableT(rows) ==
    << [name |-> <<"t">>, sql |-> <<"C","R","E","A","T","E"," ","T","A","B","L","E"," ","t"," ","(","a",")">>, columns |-> << <<"a">> >>,
        pk |-> 0, rows |-> rows, indexes |-> <<>>] >>

TransferStores ==
    { TableT([k \in 1..Len(vs) |-> << vs[k] >>]) :
         vs \in UNION { [1..n -> TransferValues] : n \in 0..MaxTransferRows } }

InitTransfer ==
    /\ srcStore \in TransferStores
    /\ now = 0
    /\ exported = NoCall
    /\ reqBody = <<>>
    /\ ipc = "exporting"
    /\ chunksLeft = MaxChunks
    /\ plan = <<>>
    /\ ImportIdle /\ DumpIdle /\ CloneIdle /\ GateIdle /\ CursorIdle

\* GET /transfer/export of the source answered, its body sent as the body
\* of POST /transfer/import of the destination.
Export ==
    /\ ipc = "exporting"
    /\ exported' = ExportCall(srcStore, DefaultConfig, now, NoFaults)
    /\ reqBody' = BodyOf(exported'.ex)
    /\ ipc' = "reading"
    /\ UNCHANGED <<imp, importResult, dstStore, received, lastRead, chunksLeft, plan,
                   srcStore, now, dumpVars, cloneVars, gateVars, cursorVars>>

NextTransfer == Export \/ ReadChunk \/ ReadEnd

SpecTransfer == InitTransfer /\ [][NextTransfer]_vars

(***************************************************************************)
(* SpecDump: dump of an object whose store other requests write to and     *)
(* clear at any moment, while the clock runs.  The store has the table t   *)
(* of one column with at most MaxRows rows of DumpValues.                  *)
(***************************************************************************)
\* A text whose tuple is longer than half of MAX_STATEMENT_SIZE.
LongText == [i \in 1..(MAX_STATEMENT_SIZE \div 2 + 4) |-> "a"]

DumpValues == { [t |-> "int", neg |-> FALSE, i |-> 1], [t |-> "text", s |-> LongText] }

RowsOf(store) == IF store = <<>> THEN 0 ELSE Len(store[1].rows)

InitDump ==
    /\ srcStore = TableT(<<>>)
    /\ now = 0
    /\ exported = NoCall
    /\ dpc = "start"
    /\ exactSize = 0
    /\ sink = NoSink
    /\ dumpResult = NoDump
    /\ pass1 = NoCall
    /\ dumpFaults = {}
    /\ dumpTrace = <<>>
    /\ CloneIdle /\ GateIdle /\ CursorIdle
    /\ reqBody = <<>>
    /\ ipc = "idle"
    /\ chunksLeft = 0
    /\ plan = <<>>
    /\ ImportIdle

\* The clock advances.
Tick ==
    /\ now < MaxClock
    /\ now' = now + 1
    /\ UNCHANGED <<importVars, srcStore, exported, dumpVars, cloneVars, gateVars, cursorVars>>

\* Another request of the object inserts a row.
StoreWrite ==
    /\ dpc # "done"
    /\ srcStore # <<>>
    /\ RowsOf(srcStore) < MaxRows
    /\ \E v \in DumpValues :
          srcStore' = SqlExec(srcStore, <<"I","N","S","E","R","T"," ","I","N","T","O"," ","t"," ","(","a",")"," ","V","A","L","U","E","S"," ","(">> \o escapeSQLValue(v)
                                           \o <<")">>).store
    /\ UNCHANGED <<importVars, now, exported, dumpVars, cloneVars, gateVars, cursorVars>>

\* Another request of the object calls clear(): storage.deleteAll.
Clear ==
    /\ dpc # "done"
    /\ srcStore # <<>>
    /\ srcStore' = <<>>
    /\ UNCHANGED <<importVars, now, exported, dumpVars, cloneVars, gateVars, cursorVars>>

\* dump reads its configuration, looks the bucket up and runs pass 1: the
\* export is generated and measured.  A configuration that is not an object
\* makes the destructuring throw before the try block; a missing bucket or a
\* failing export stream ends in the catch block.
DumpPass1 ==
    /\ dpc = "start"
    /\ IF "config" \in dumpFaults
       THEN /\ dpc' = "thrown"
            /\ UNCHANGED <<exported, pass1, exactSize, dumpResult, dumpTrace>>
       ELSE IF "bucket" \in dumpFaults
       THEN /\ dumpResult' = DumpFailure
            /\ dpc' = "done"
            /\ dumpTrace' = Pass1Steps(FALSE, FALSE)
            /\ UNCHANGED <<exported, pass1, exactSize>>
       ELSE /\ exported' = ExportCall(srcStore, DefaultConfig, now, NoFaults)
            /\ pass1' = exported'
            /\ dumpTrace' = Pass1Steps(TRUE, "pass1" \notin dumpFaults)
            /\ IF "pass1" \in dumpFaults
               THEN /\ dumpResult' = DumpFailure
                    /\ dpc' = "done"
                    /\ UNCHANGED exactSize
               ELSE /\ exactSize' = ExactSize(exported'.ex.chunks, 1)
                    /\ dpc' = "sized"
                    /\ UNCHANGED dumpResult
    /\ UNCHANGED <<importVars, srcStore, now, sink, dumpFaults, cloneVars, gateVars, cursorVars>>

\* Pass 2: the export is generated again and written to the fixed-length
\* stream the bucket reads; the upload succeeds or is rejected.  A failing
\* export stream or a failing writer leaves the stream unfilled, and closing
\* it throws into the catch block.
DumpPass2 ==
    /\ dpc = "sized"
    /\ exported' = ExportCall(srcStore, DefaultConfig, now, NoFaults)
    /\ sink' = IF dumpFaults \cap {"pass2", "sink"} # {}
               THEN [written |-> 0, failed |-> TRUE]
               ELSE WriteChunks(exported'.ex.chunks, 1, exactSize, 0)
    /\ dumpTrace' = dumpTrace \o
          Pass2Steps(IF dumpFaults \cap {"pass2", "sink"} # {} THEN 0
                     ELSE ChunksWritten(exported'.ex.chunks, exactSize),
                     ~sink'.failed)
    /\ \E uploaded \in BOOLEAN :
          /\ dumpResult' = DumpResult(exactSize, sink', uploaded, exported'.ex)
          /\ dumpFaults' = IF uploaded THEN dumpFaults
                                       ELSE dumpFaults \cup {"upload"}
    /\ dpc' = "done"
    /\ UNCHANGED <<importVars, srcStore, now, exactSize, pass1, cloneVars, gateVars, cursorVars>>

NextDump == Tick \/ StoreWrite \/ Clear \/ DumpPass1 \/ DumpPass2

SpecDump == InitDump /\ [][NextDump]_vars

\* SpecSnapshot: the body of one getExport call is read chunk by chunk, as
\* pass 1 of dump reads it, while other requests of the object write to the
\* store and clear it and the clock runs.
InitSnapshot ==
    /\ srcStore = TableT(<<>>)
    /\ now = 0
    /\ exported = NoCall
    /\ dpc = "export"
    /\ exactSize = 0
    /\ sink = NoSink
    /\ dumpResult = NoDump
    /\ pass1 = NoCall
    /\ dumpFaults = {}
    /\ dumpTrace = <<>>
    /\ CloneIdle /\ GateIdle /\ CursorIdle
    /\ reqBody = <<>>
    /\ ipc = "idle"
    /\ chunksLeft = 0
    /\ plan = <<>>
    /\ ImportIdle

\* const sizeCalculationResponse = await this.getExport(exportConfig)
SnapshotExport ==
    /\ dpc = "export"
    /\ exported' = ExportCall(srcStore, DefaultConfig, now, NoFaults)
    /\ pass1' = exported'
    /\ dpc' = "reading"
    /\ UNCHANGED <<importVars, srcStore, now, exactSize, sink, dumpResult, dumpFaults,
                   dumpTrace, cloneVars, gateVars, cursorVars>>

\* const { done, value } = await sizeCalculationReader.read(); if (done)
\* break; exactSize += value.length.  lastRead.n is the number of chunks
\* read, received the bytes read.
SnapshotRead ==
    /\ dpc = "reading"
    /\ IF lastRead.n < Len(pass1.ex.chunks)
       THEN With(Encode(QueuedChunk(pass1, srcStore, now, lastRead.n + 1)), LAMBDA value :
               /\ lastRead' = [n |-> lastRead.n + 1, value |-> value, seen |-> <<>>]
               /\ received' = received \o value
               /\ exactSize' = exactSize + Len(value)
               /\ dpc' = dpc)
       ELSE /\ dpc' = "done"
            /\ UNCHANGED <<lastRead, received, exactSize>>
    /\ UNCHANGED <<reqBody, imp, ipc, importResult, dstStore, chunksLeft, plan, exportVars,
                   sink, dumpResult, pass1, dumpFaults, dumpTrace, cloneVars, gateVars,
                   cursorVars>>

NextSnapshot == Tick \/ StoreWrite \/ Clear \/ SnapshotExport \/ SnapshotRead

SpecSnapshot == InitSnapshot /\ [][NextSnapshot]_vars

(***************************************************************************)
(* SpecExport: one export request on a store whose catalog has at most     *)
(* MaxTables of the tables of CatalogNames, user tables and internal ones, *)
(* with every pair of lists of ExportConfigs and every fault of            *)
(* ExportFaults.                                                           *)
(***************************************************************************)
\* The names in catalog order, and the number of rows of each table.
CatalogNames == << <<"t">>, <<"u">>, <<"e">>, <<"a", "c", "f", "b">>, <<"s", "q", "l", "i", "t", "e", "d", "b">>, <<"_", "c", "f", "_", "k">>, <<"s", "q", "l", "i", "t", "e", "_", "s">> >>

CatalogRows == << 2, 1, 0, 1, 0, 1, 0 >>

\* The table of one column with n rows that CREATE TABLE and INSERT make.
TableNamed(name, n) ==
    [name |-> name, sql |-> <<"C", "R", "E", "A", "T", "E", " ", "T", "A", "B", "L", "E", " ">> \o name \o <<" ", "(", "a", ")">>, columns |-> << <<"a">> >>,
     pk |-> 0, rows |-> [k \in 1..n |-> << [t |-> "int", neg |-> FALSE, i |-> k] >>],
     indexes |-> <<>>]

Catalogs ==
    { With(SelectSeq([k \in 1..Len(CatalogNames) |-> k], LAMBDA k : k \in ks), LAMBDA ix :
         [j \in 1..Len(ix) |-> TableNamed(CatalogNames[ix[j]], CatalogRows[ix[j]])])
      : ks \in { x \in SUBSET (1..Len(CatalogNames)) : Cardinality(x) <= MaxTables } }

ExportConfigs ==
    { [DefaultConfig EXCEPT !.tableWhitelist = wl, !.tableBlacklist = bl]
      : wl \in { <<>>, << <<"t">> >>, << <<"u">>, <<"_", "c", "f", "_", "k">> >>, << <<"a", "c", "f", "b">> >> },
        bl \in { <<>>, << <<"t">> >>, << <<"u">> >> } }

\* No fault, or one table whose schema query, PRAGMA, SELECT, or PRAGMA and
\* SELECT fail; with or without a failing catalog query.
ExportFaults ==
    { [NoFaults EXCEPT !.catalog = c] : c \in BOOLEAN }
       \cup { [catalog |-> c, schema |-> IF kind = "schema" THEN {x} ELSE {},
               columns |-> IF kind \in {"columns", "both"} THEN {x} ELSE {},
               rows |-> IF kind \in {"rows", "both"} THEN {x} ELSE {},
               cursor |-> IF kind = "cursor" THEN {x} ELSE {}]
              : c \in BOOLEAN, x \in { <<"t">>, <<"e">> },
                kind \in {"schema", "columns", "rows", "both", "cursor"} }

InitExport ==
    /\ srcStore \in Catalogs
    /\ now = 0
    /\ exported = NoCall
    /\ reqBody = <<>>
    /\ ipc = "idle"
    /\ chunksLeft = 0
    /\ plan = <<>>
    /\ ImportIdle /\ DumpIdle /\ CloneIdle /\ GateIdle /\ CursorIdle

\* GET /transfer/export with a configuration, answered.
ExportRequest ==
    /\ exported = NoCall
    /\ \E config \in ExportConfigs, faults \in ExportFaults :
          exported' = ExportCall(srcStore, config, now, faults)
    /\ UNCHANGED <<importVars, srcStore, now, dumpVars, cloneVars, gateVars, cursorVars>>

NextExport == ExportRequest

SpecExport == InitExport /\ [][NextExport]_vars

(***************************************************************************)
(* SpecGuard: runFromFile of an object whose store has the table t, on     *)
(* every script of at most MaxGuardStmts statements of GuardPieces, read   *)
(* in at most MaxChunks chunks cut at any byte.  The request may have no   *)
(* body, and any read of the body may fail.                                *)
(***************************************************************************)
\* Dump and clone in a failing environment.  The dump call runs with any set
\* of faults; the clone call runs with every configuration and every answer
\* of the two endpoints.
DumpFaultNames == {"config", "bucket", "pass1", "pass2", "sink"}

\* What a fetch of clone ends in: a 2xx answer, another status, or a
\* rejected fetch.
Answers == {"ok", "non2xx", "network"}

InitFail ==
    /\ srcStore = TableT(<< << [t |-> "int", neg |-> FALSE, i |-> 1] >> >>)
    /\ now = 0
    /\ exported = NoCall
    /\ dpc = "start"
    /\ exactSize = 0
    /\ sink = NoSink
    /\ dumpResult = NoDump
    /\ pass1 = NoCall
    /\ dumpFaults \in SUBSET DumpFaultNames
    /\ GateIdle /\ CursorIdle
    /\ dumpTrace = <<>>
    /\ \E onImport \in BOOLEAN, afterExport \in BOOLEAN :
          clone = [NoClone EXCEPT !.pc = "start",
                                  !.config = [clearOnImport |-> onImport,
                                              clearAfterExport |-> afterExport]]
    /\ reqBody = <<>>
    /\ ipc = "idle"
    /\ chunksLeft = 0
    /\ plan = <<>>
    /\ ImportIdle

\* clone clears the destination when asked to; any answer but a 2xx one is
\* thrown.
CloneClearDestination ==
    /\ clone.pc = "start"
    /\ IF ~clone.config.clearOnImport
       THEN clone' = [clone EXCEPT !.pc = "export"]
       ELSE \E answer \in Answers :
               clone' = With(CloneRequest(clone, "clear destination"),
                           LAMBDA c :
                             IF answer = "ok"
                             THEN [c EXCEPT !.pc = "export"]
                             ELSE CloneCaught(c, "clear destination", answer))
    /\ UNCHANGED <<importVars, exportVars, dumpVars, gateVars, cursorVars>>

\* clone fetches the export of the source.
CloneExport ==
    /\ clone.pc = "export"
    /\ \E answer \in Answers :
          clone' = With(CloneRequest(clone, "export"),
                      LAMBDA c :
                        IF answer = "ok"
                        THEN [c EXCEPT !.pc = "import"]
                        ELSE CloneCaught(c, "export", answer))
    /\ UNCHANGED <<importVars, exportVars, dumpVars, gateVars, cursorVars>>

\* clone posts the export to the destination and parses the answer as the
\* import result.  A Transferable endpoint answers 200 exactly when the
\* import result's success is true; another server may answer 200 with any
\* body.
CloneImport ==
    /\ clone.pc = "import"
    /\ \E answer \in Answers, body \in {"unparsable", "success", "failure"} :
          clone' = ImportAnswered(
                      [CloneRequest(clone, "import") EXCEPT
                          !.produced = IF answer = "network" \/ body = "unparsable"
                                       THEN <<>>
                                       ELSE << [success |-> body = "success",
                                                status |-> answer] >>],
                      answer, body)
    /\ UNCHANGED <<importVars, exportVars, dumpVars, gateVars, cursorVars>>

\* clone clears the source when asked to, and returns.  A non-2xx answer is
\* only logged; a rejected fetch or an unparsable 2xx answer is thrown.  The
\* source that answers 2xx has deleted its store.
CloneClearSource ==
    /\ clone.pc = "clear"
    /\ IF ~clone.config.clearAfterExport
       THEN clone' = CloneReturned(clone, FALSE) /\ srcStore' = srcStore
       ELSE \E answer \in Answers, parsable \in BOOLEAN :
             /\ srcStore' = IF answer = "ok" THEN <<>> ELSE srcStore
             /\ clone' = With(CloneRequest(clone, "clear source"),
                           LAMBDA c :
                             IF answer = "network"
                             THEN CloneCaught(c, "clear source", answer)
                             ELSE IF answer = "non2xx"
                             THEN CloneReturned(
                                     [c EXCEPT !.faults = @ \cup
                                        {[step |-> "clear source",
                                          kind |-> answer]}], FALSE)
                             ELSE IF ~parsable
                             THEN CloneCaught(c, "clear source", "unparsable")
                             ELSE CloneReturned(c, TRUE))
    /\ UNCHANGED <<importVars, now, exported, dumpVars, gateVars, cursorVars>>

NextFail ==
    \/ DumpPass1 \/ DumpPass2
    \/ CloneClearDestination \/ CloneExport \/ CloneImport \/ CloneClearSource

SpecFail == InitFail /\ [][NextFail]_vars

\* SpecReimport: the body getExport writes for a store, with the schema
\* alone or with the data, is read by runFromFile of an object whose store
\* already holds the tables and the rows of the source, in at most
\* MaxChunks chunks; includeSchema and includeData take both values.  The
\* stores are the ones the scripts of ReimportScripts make.
ReimportScripts ==
    { <<"C", "R", "E", "A", "T", "E", " ", "T", "A", "B", "L", "E", " ", "t", " ", "(", "a", " ", "p", "r", "i", "m", "a", "r", "y", " ", "k", "e", "y", ")", ";", " ", "I", "N", "S", "E", "R", "T", " ", "I", "N", "T", "O", " ", "t", " ", "(", "a", ")", " ", "V", "A", "L", "U", "E", "S", " ", "(", "1", ")">>,
      <<"C", "R", "E", "A", "T", "E", " ", "T", "A", "B", "L", "E", " ", "t", " ", "(", "a", " ", "p", "r", "i", "m", "a", "r", "y", " ", "k", "e", "y", ")", ";", " ", "I", "N", "S", "E", "R", "T", " ", "I", "N", "T", "O", " ", "t", " ", "(", "a", ")", " ", "V", "A", "L", "U", "E", "S", " ", "(", "1", ")", ",", " ", "(", "2", ")">>,
      <<"C", "R", "E", "A", "T", "E", " ", "T", "A", "B", "L", "E", " ", "t", " ", "(", "a", ")", ";", " ", "C", "R", "E", "A", "T", "E", " ", "T", "A", "B", "L", "E", " ", "u", " ", "(", "b", " ", "p", "r", "i", "m", "a", "r", "y", " ", "k", "e", "y", ",", " ", "c", ")", ";", " ", "I", "N", "S", "E", "R", "T", " ", "I", "N", "T", "O", " ", "t", " ", "(", "a", ")", " ", "V", "A", "L", "U", "E", "S", " ", "(", "2", ")", ";", " ", "I", "N", "S", "E", "R", "T", " ", "I", "N", "T", "O", " ", "u", " ", "(", "b", ",", " ", "c", ")", " ", "V", "A", "L", "U", "E", "S", " ", "(", "1", ",", " ", "'", "x", "'", ")">>,
      <<"C", "R", "E", "A", "T", "E", " ", "T", "A", "B", "L", "E", " ", "u", " ", "(", "b", ",", " ", "c", " ", "p", "r", "i", "m", "a", "r", "y", " ", "k", "e", "y", ")">>,
      <<"C", "R", "E", "A", "T", "E", " ", "T", "A", "B", "L", "E", " ", "t", " ", "(", "a", " ", "p", "r", "i", "m", "a", "r", "y", " ", "k", "e", "y", ")", ";", " ", "I", "N", "S", "E", "R", "T", " ", "I", "N", "T", "O", " ", "t", " ", "(", "a", ")", " ", "V", "A", "L", "U", "E", "S", " ", "(", "N", "U", "L", "L", ")">>,
      <<"C", "R", "E", "A", "T", "E", " ", "T", "A", "B", "L", "E", " ", "t", " ", "(", "a", " ", "p", "r", "i", "m", "a", "r", "y", " ", "k", "e", "y", ")", ";", " ", "I", "N", "S", "E", "R", "T", " ", "I", "N", "T", "O", " ", "t", " ", "(", "a", ")", " ", "V", "A", "L", "U", "E", "S", " ", "(", "'", "b", ";", "\n", "'", ")">>,
      <<"C", "R", "E", "A", "T", "E", " ", "T", "A", "B", "L", "E", " ", "t", " ", "(", "a", ")", ";", " ", "C", "R", "E", "A", "T", "E", " ", "I", "N", "D", "E", "X", " ", "i", " ", "O", "N", " ", "t", " ", "(", "a", ")", ";", " ", "I", "N", "S", "E", "R", "T", " ", "I", "N", "T", "O", " ", "t", " ", "(", "a", ")", " ", "V", "A", "L", "U", "E", "S", " ", "(", "1", ")">> }

ReimportConfigs ==
    { [DefaultConfig EXCEPT !.includeSchema = s, !.includeData = d]
      : s \in BOOLEAN, d \in BOOLEAN }

InitReimport ==
    /\ \E script \in ReimportScripts : srcStore = SqlExec(<<>>, script).store
    /\ now = 0
    /\ exported = NoCall
    /\ reqBody = <<>>
    /\ ipc = "exporting"
    /\ chunksLeft = MaxChunks
    /\ plan = <<>>
    /\ imp = NewImport
    /\ importResult = "none"
    /\ dstStore = srcStore
    /\ received = <<>>
    /\ lastRead = NoRead
    /\ DumpIdle /\ CloneIdle /\ GateIdle /\ CursorIdle

\* GET /transfer/export of the source with a configuration, its body sent
\* as the body of POST /transfer/import of the destination.
ExportConfigured ==
    /\ ipc = "exporting"
    /\ \E config \in ReimportConfigs :
          exported' = ExportCall(srcStore, config, now, NoFaults)
    /\ reqBody' = BodyOf(exported'.ex)
    /\ ipc' = "reading"
    /\ UNCHANGED <<imp, importResult, dstStore, received, lastRead, chunksLeft, plan,
                   srcStore, now, dumpVars, cloneVars, gateVars, cursorVars>>

NextReimport == ExportConfigured \/ ReadChunk \/ ReadEnd

SpecReimport == InitReimport /\ [][NextReimport]_vars

\* SpecGate: one request to an object made with Transferable, with and
\* without a secret and isReadonlyPublic, with every method and path of
\* GatePaths and every Authorization header and apiKey parameter of
\* GateHeaders and GateKeys.  The object serves every endpoint on srcStore.
GateSecret == <<"a", ":", "b">>

GateHeaders ==
    { <<>>,
      <<"B", "a", "s", "i", "c", " ">> \o btoa(GateSecret),
      <<"B", "a", "s", "i", "c", " ">> \o btoa(<<"a", ":", "c">>),
      <<"B", "a", "s", "i", "c", " ">> \o btoa(<<"a", "b">>),
      <<"B", "a", "s", "i", "c", " ", "Y", "T", "!", "i">>,
      <<"b", "a", "s", "i", "c", " ">> \o btoa(GateSecret),
      <<"B", "a", "s", "i", "c", "X">> \o btoa(GateSecret),
      <<"B", "e", "a", "r", "e", "r", " ">> \o btoa(GateSecret),
      GateSecret }

GateKeys == { <<>>, GateSecret, <<"a">> }

GatePaths ==
    { "/transfer/export", "/transfer/import", "/transfer/import/u", "/transfer/clear",
      "/transfer/dump", "/other" }

InitGate ==
    /\ srcStore = TableT(<< << [t |-> "int", neg |-> FALSE, i |-> 1] >> >>)
    /\ now = 0
    /\ exported = NoCall
    /\ \E secret \in { <<>>, GateSecret }, public \in BOOLEAN,
          method \in {"GET", "POST"}, path \in GatePaths,
          authorization \in GateHeaders, apiKey \in GateKeys :
          gate = [NoGate EXCEPT
                    !.config = [secret |-> secret, isReadonlyPublic |-> public],
                    !.request = [method |-> method, path |-> path,
                                 authorization |-> authorization, apiKey |-> apiKey,
                                 body |-> <<"I", "N", "S", "E", "R", "T", " ", "I", "N", "T", "O", " ", "t", " ", "(", "a", ")", " ", "V", "A", "L", "U", "E", "S", " ", "(", "2", ")", ";", "\n">>],
                    !.alarm = TRUE]
    /\ reqBody = <<>>
    /\ ipc = "idle"
    /\ chunksLeft = 0
    /\ plan = <<>>
    /\ ImportIdle /\ DumpIdle /\ CloneIdle /\ CursorIdle

\* Transferable.fetch(request): the gate, then the operation.  The import
\* endpoints run runFromFile on the body (of the request, or fetched from
\* the url), clear deletes the alarm and the store, dump starts the dump
\* call, whose passes follow.
Fetch ==
    /\ gate.served = "none"
    /\ gate.request.path # "/"
    /\ gate' = With(Route(gate.config, gate.request), LAMBDA op :
                  [gate EXCEPT
                     !.served = op,
                     !.status = IF op = "unauthorized" THEN 401
                                ELSE IF op = "super" THEN 404
                                ELSE IF op = "dump" THEN 0
                                ELSE IF op \in {"import", "importFromUrl"}
                                        /\ runFromFileOnce(srcStore, gate.request.body).imp.errors # <<>>
                                THEN 400
                                ELSE 200,
                     !.alarm = IF op = "clear" THEN FALSE ELSE @])
    /\ exported' = IF gate'.served = "export"
                   THEN ExportCall(srcStore, DefaultConfig, now, NoFaults)
                   ELSE exported
    /\ srcStore' = IF gate'.served \in {"import", "importFromUrl"}
                   THEN runFromFileOnce(srcStore, gate.request.body).store
                   ELSE IF gate'.served = "clear" THEN <<>>
                   ELSE srcStore
    /\ importResult' = IF gate'.served \in {"import", "importFromUrl"}
                       THEN ImportResultOf(runFromFileOnce(srcStore, gate.request.body).imp)
                       ELSE importResult
    /\ dpc' = IF gate'.served = "dump" THEN "start" ELSE dpc
    /\ UNCHANGED <<reqBody, imp, ipc, dstStore, received, lastRead, chunksLeft, plan, now,
                   exactSize, sink, dumpResult, pass1, dumpFaults, dumpTrace, cloneVars, cursorVars>>

NextGate == Fetch \/ DumpPass1 \/ DumpPass2

SpecGate == InitGate /\ [][NextGate]_vars

\* SpecCursor: importFromUrl of the cursor variant, from a remote database
\* (srcStore) with the tables t, of two rows, u and e, of none, into a local
\* store (dstStore) that is empty, or has t with one of the rows, or has u
\* with another column; with every fault of CursorFaults.
CursorRemotes ==
    { SqlExec(<<>>, <<"C", "R", "E", "A", "T", "E", " ", "T", "A", "B", "L", "E", " ", "t", " ", "(", "a", " ", "p", "r", "i", "m", "a", "r", "y", " ", "k", "e", "y", ")", ";", " ", "C", "R", "E", "A", "T", "E", " ", "T", "A", "B", "L", "E", " ", "u", " ", "(", "b", ")", ";", " ", "C", "R", "E", "A", "T", "E", " ", "T", "A", "B", "L", "E", " ", "e", " ", "(", "c", ")", ";", " ", "I", "N", "S", "E", "R", "T", " ", "I", "N", "T", "O", " ", "t", " ", "(", "a", ")", " ", "V", "A", "L", "U", "E", "S", " ", "(", "1", ")", ",", " ", "(", "2", ")", ";", " ", "I", "N", "S", "E", "R", "T", " ", "I", "N", "T", "O", " ", "u", " ", "(", "b", ")", " ", "V", "A", "L", "U", "E", "S", " ", "(", "3", ")">>).store,
      <<>> }

CursorLocals ==
    { <<>>,
      SqlExec(<<>>, <<"C", "R", "E", "A", "T", "E", " ", "T", "A", "B", "L", "E", " ", "t", " ", "(", "a", " ", "p", "r", "i", "m", "a", "r", "y", " ", "k", "e", "y", ")", ";", " ", "I", "N", "S", "E", "R", "T", " ", "I", "N", "T", "O", " ", "t", " ", "(", "a", ")", " ", "V", "A", "L", "U", "E", "S", " ", "(", "2", ")">>).store,
      SqlExec(<<>>, <<"C", "R", "E", "A", "T", "E", " ", "T", "A", "B", "L", "E", " ", "u", " ", "(", "d", ")", ";", " ", "I", "N", "S", "E", "R", "T", " ", "I", "N", "T", "O", " ", "u", " ", "(", "d", ")", " ", "V", "A", "L", "U", "E", "S", " ", "(", "3", ")">>).store }

CursorFaultKinds == {"none", "schema", "missing", "create", "columns", "rows"}

CursorFaults ==
    { [list |-> l,
       schema |-> { x \in {<<"t">>, <<"u">>} : (IF x = <<"t">> THEN kt ELSE ku) = "schema" },
       missing |-> { x \in {<<"t">>, <<"u">>} : (IF x = <<"t">> THEN kt ELSE ku) = "missing" },
       create |-> { x \in {<<"t">>, <<"u">>} : (IF x = <<"t">> THEN kt ELSE ku) = "create" },
       columns |-> { x \in {<<"t">>, <<"u">>} : (IF x = <<"t">> THEN kt ELSE ku) = "columns" },
       rows |-> { x \in {<<"t">>, <<"u">>} : (IF x = <<"t">> THEN kt ELSE ku) = "rows" }]
      : l \in BOOLEAN, kt \in CursorFaultKinds, ku \in CursorFaultKinds }

InitCursor ==
    /\ srcStore \in CursorRemotes
    /\ dstStore \in CursorLocals
    /\ \E faults \in CursorFaults :
          urlImport = [faults |-> faults, before |-> dstStore, done |-> FALSE,
                       result |-> "none"]
    /\ now = 0
    /\ exported = NoCall
    /\ reqBody = <<>>
    /\ ipc = "idle"
    /\ chunksLeft = 0
    /\ plan = <<>>
    /\ imp = NewImport
    /\ importResult = "none"
    /\ received = <<>>
    /\ lastRead = NoRead
    /\ DumpIdle /\ CloneIdle /\ GateIdle

\* importFromUrl(url, authHeader) called and returned.
ImportFromUrl ==
    /\ ~urlImport.done
    /\ urlImport' = [urlImport EXCEPT
                        !.done = TRUE,
                        !.result = importFromUrl(dstStore, srcStore, urlImport.faults)]
    /\ dstStore' = urlImport'.result.store
    /\ UNCHANGED <<reqBody, imp, ipc, importResult, received, lastRead, chunksLeft, plan,
                   exportVars, dumpVars, cloneVars, gateVars>>

NextCursor == ImportFromUrl

SpecCursor == InitCursor /\ [][NextCursor]_vars

GuardPieces ==
    { <<"B", "E", "G", "I", "N", ";", "\n">>, <<"p", "r", "a", "g", "m", "a", " ", "x", ";", "\n">>, <<"D", "R", "O", "P", " ", "T", "A", "B", "L", "E", " ", "t", ";", "\n">>,
      <<"C", "R", "E", "A", "T", "E", " ", "T", "A", "B", "L", "E", " ", "u", " ", "(", "a", ")", ";", " ", "D", "R", "O", "P", " ", "T", "A", "B", "L", "E", " ", "t", ";", "\n">>,
      <<"I", "N", "S", "E", "R", "T", " ", "I", "N", "T", "O", " ", "t", " ", "(", "a", ")", " ", "V", "A", "L", "U", "E", "S", " ", "(", "'", "_", "c", "f", "_", "'", ")", ";", "\n">>,
      <<"C", "R", "E", "A", "T", "E", " ", "T", "A", "B", "L", "E", " ", "_", "c", "f", "_", "k", " ", "(", "a", ")", ";", "\n">>,
      <<"x", ";", "\n">>,
      <<"I", "N", "S", "E", "R", "T", " ", "I", "N", "T", "O", " ", "t", " ", "(", "a", ")", " ", "V", "A", "L", "U", "E", "S", " ", "(", "2", ")", ";", "\n">> }

GuardPlans == UNION { [1..n -> GuardPieces] : n \in 0..MaxGuardStmts }

\* The store of the importing object before the import: t with one row.
GuardStore == TableT(<< << [t |-> "int", neg |-> FALSE, i |-> 1] >> >>)

InitGuard ==
    /\ plan \in GuardPlans
    /\ reqBody = Encode(Concat(plan))
    /\ ipc = "called"
    /\ chunksLeft = MaxChunks
    /\ imp = NewImport
    /\ importResult = "none"
    /\ dstStore = GuardStore
    /\ received = <<>>
    /\ lastRead = NoRead
    /\ ExportIdle /\ DumpIdle /\ CloneIdle /\ GateIdle /\ CursorIdle

\* runFromFile(request) up to the loop: a request without a body makes it
\* throw, outside the try block.
ImportCall ==
    /\ ipc = "called"
    /\ \E hasBody \in BOOLEAN :
          /\ ipc' = IF hasBody THEN "reading" ELSE "thrown"
          /\ reqBody' = IF hasBody THEN reqBody ELSE <<>>
    /\ UNCHANGED <<imp, importResult, dstStore, received, lastRead, chunksLeft, plan,
                   exportVars, dumpVars, cloneVars, gateVars, cursorVars>>

\* reader.read() rejects: the catch block returns.
ReadFail ==
    /\ ipc = "reading"
    /\ importResult' = ImportFailureOf(imp)
    /\ ipc' = "failed"
    /\ UNCHANGED <<reqBody, imp, dstStore, received, lastRead, chunksLeft, plan,
                   exportVars, dumpVars, cloneVars, gateVars, cursorVars>>

NextGuard == ImportCall \/ ReadChunk \/ ReadEnd \/ ReadFail

SpecGuard == InitGuard /\ [][NextGuard]_vars

----------------------------------------------------------------------------
(***************************************************************************)
(* Properties of the splitter and the read loop (SpecSplit).               *)
(***************************************************************************)
Last(seq) == seq[Len(seq)]

\* The last line of a text.
LastLine(text) == SplitLines(text)[Len(SplitLines(text))].line

\* The log entries of the statements that end at position p of the input.
EndingAt(p) == { i \in 1..Len(imp.log) : imp.log[i].last = p }

\* C8: no part of the input is passed to executeStatementSafely twice: the
\* statements executed lie one after the other in the text received.  And
\* when the last byte of a chunk is a terminator, the read of that chunk
\* leaves an empty buffer and has executed, once, the statement the
\* terminator ends (there is one unless the terminator closes a line the
\* splitter passes over as a comment).
NoReEmission ==
    /\ \A i, j \in 1..Len(imp.log) :
          i < j => imp.log[i].first <= imp.log[i].last /\ imp.log[i].last < imp.log[j].first
    /\ (lastRead.n # 0 /\ Last(lastRead.value) = SEMI) =>
          /\ imp.buffer = <<>>
          /\ Cardinality(EndingAt(Len(received))) <= 1
          /\ ~IsSkippedLine(LastLine(lastRead.seen)) =>
                \E i \in EndingAt(Len(received)) : imp.log[i].read = lastRead.n

\* Reached: a chunk ended on a terminator, its statement was executed in that
\* read, and it is the second statement executed, an earlier read having
\* executed the first.
NoReEmissionWitness ==
    /\ lastRead.n # 0 /\ Last(lastRead.value) = SEMI
    /\ Len(imp.log) = 2
    /\ imp.log[1].read < imp.log[2].read
    /\ imp.log[2].read = lastRead.n
    /\ imp.log[2].last = Len(received)

\* The positions of the text received that lie in lines the splitter passes
\* over when it is given the whole text (comment and blank lines).
SkippedPositions ==
    UNION { (SplitLines(received)[k].off + 1)
               ..(SplitLines(received)[k].off + Len(SplitLines(received)[k].line))
            : k \in { h \in 1..Len(SplitLines(received)) :
                         IsSkippedLine(SplitLines(received)[h].line) } }

\* C9: every character received that is not whitespace, not a terminator
\* and not in a comment line is part of a statement passed to
\* executeStatementSafely or is still in the buffer.
TailNeverLost ==
    \A p \in 1..Len(received) :
        \/ IsWs(received[p])
        \/ received[p] = SEMI
        \/ p \in SkippedPositions
        \/ p > Len(received) - Len(imp.buffer)
        \/ \E i \in 1..Len(imp.log) : imp.log[i].first <= p /\ p <= imp.log[i].last

\* Whether a text holds a line the splitter does not pass over.
HasStatementText(text) ==
    \E k \in 1..Len(SplitLines(text)) : ~IsSkippedLine(SplitLines(text)[k].line)

\* C10: when the reader reports done and the buffer holds statement text
\* without a terminator, that remainder is executed as one final statement
\* in the done branch.
FinalRemainderExecuted ==
    (ipc = "finalized" /\ HasStatementText(imp.buffer)) =>
        /\ Cardinality({ i \in 1..Len(imp.log) : imp.log[i].read = imp.reads }) = 1
        /\ importResult.executedStatements >= 1

----------------------------------------------------------------------------
(***************************************************************************)
(* Properties of the import of a script (SpecImport).                      *)
(***************************************************************************)
\* The statements of the plan but the failing one.
ValidOf(p) == SelectSeq(p, LAMBDA st : st # StBad)

\* The plan is n statements that succeed when run in order (the table is
\* created once, before the inserts) plus the one statement that fails.
OneFailing ==
    /\ Len(plan) >= 2
    /\ Len(ValidOf(plan)) = Len(plan) - 1
    /\ ValidOf(plan)[1] = StCreate
    /\ \A k \in 2..Len(ValidOf(plan)) : ValidOf(plan)[k] # StCreate

\* C3: for n valid statements and one failing statement, the import goes
\* on after the failure: the result has one error, success = false,
\* executedStatements = n, and the n valid statements are applied (the table
\* is created and holds the n - 1 rows inserted).
PartialFailureTolerance ==
    (ipc = "finalized" /\ OneFailing) =>
        /\ importResult.success = FALSE
        /\ Len(importResult.errors.list) = 1
        /\ importResult.executedStatements = Len(plan) - 1
        /\ Len(dstStore) = 1 /\ Len(dstStore[1].rows) = Len(plan) - 2

----------------------------------------------------------------------------
(***************************************************************************)
(* Properties of export followed by import (SpecTransfer).                 *)
(***************************************************************************)
\* runFromFile on the whole body as one chunk, into an empty store.
WholeEnd(r, n) == ReadDone(r.imp, r.store, n - Len(r.imp.buffer))
WholeRun(body) ==
    WholeEnd(ReadValue(NewImport, <<>>, body, 0), Len(Decode(<<>>, body).text))

SameResult(whole) ==
    /\ importResult.executedStatements = whole.imp.executedStatements
    /\ importResult.rowsInserted = whole.imp.rowsInserted
    /\ importResult.tablesCreated = whole.imp.tablesCreated
    /\ importResult.errors = OrUndefined(whole.imp.errors)
    /\ dstStore = whole.store

\* C1: however the bytes of an export body are cut into chunks, runFromFile
\* returns the executedStatements, rowsInserted, tablesCreated and errors,
\* and leaves the store, that it does when the body is one chunk.
ChunkBoundaryIndependence ==
    ipc = "finalized" => SameResult(WholeRun(BodyOf(exported.ex)))

\* The number of rows of a table equal to row.
Copies(table, row) == Cardinality({ r \in 1..Len(table.rows) : table.rows[r] = row })

SameRows(a, b) ==
    /\ Len(a.rows) = Len(b.rows)
    /\ \A r \in 1..Len(a.rows) : Copies(a, a.rows[r]) = Copies(b, a.rows[r])

\* C2: after the import of the export body of a store into an empty store,
\* every table of the source exists in the destination and holds the same
\* multiset of rows.
RoundTrip ==
    ipc = "finalized" =>
        \A k \in 1..Len(srcStore) :
            /\ TableIndex(dstStore, srcStore[k].name) # 0
            /\ SameRows(srcStore[k], dstStore[TableIndex(dstStore, srcStore[k].name)])

----------------------------------------------------------------------------
(***************************************************************************)
(* Properties of getExport and dump (SpecDump).                            *)
(***************************************************************************)
\* C4: two getExport generations against the same store, at whatever times
\* they start, give the same bytes: when the store of pass 2 is the store of
\* pass 1, the body of pass 2 is the body of pass 1.
TwoPassDeterminism ==
    (dpc = "done" /\ exported.store = pass1.store) =>
        BodyOf(exported.ex) = BodyOf(pass1.ex)

\* C5: a dump whose pass 2 body has not the number of bytes measured in
\* pass 1 returns success = false; a dump that returns success = true has
\* written exactly exactSize bytes to the fixed-length stream, which are the
\* whole body of pass 2, and returns that number as size.
SizingViolationNotSilent ==
    dpc = "done" =>
        /\ Len(BodyOf(exported.ex)) # exactSize => ~dumpResult.success
        /\ dumpResult.success =>
              /\ sink.written = exactSize
              /\ sink.written = Len(BodyOf(exported.ex))
              /\ dumpResult.size = sink.written

\* Reached: the store was written to between the passes, pass 2 gave a body
\* of another size, and dump returned a failure.
SizingViolationWitness ==
    /\ dpc = "done"
    /\ exported.store # pass1.store
    /\ Len(BodyOf(exported.ex)) > exactSize
    /\ dumpResult.success = FALSE /\ dumpResult.size = 0

\* C6: every INSERT statement written has at most MAX_STATEMENT_SIZE bytes,
\* prefix, column list, tuples, separators and terminator counted.
SizeCeiling ==
    \A i \in 1..Len(exported.ex.inserts) :
        Len(Encode(exported.ex.inserts[i].text)) <= MAX_STATEMENT_SIZE

\* The tuples of the INSERT statements written for a table, in the order
\* written.
TuplesWritten(ex, tableName) ==
    Concat([i \in 1..Len(ex.inserts) |->
              IF ex.inserts[i].table = tableName THEN ex.inserts[i].values ELSE <<>>])

\* C7: the tuples of the INSERT statements written for a table are the rows
\* of the table, each once, in cursor order, and no INSERT statement has
\* more than BATCH_SIZE tuples.
ExactlyOnceCoverage ==
    /\ \A k \in 1..Len(exported.store) :
          TuplesWritten(exported.ex, exported.store[k].name)
             = [r \in 1..Len(exported.store[k].rows) |->
                   ValueString(exported.store[k].columns, exported.store[k].rows[r])]
    /\ \A i \in 1..Len(exported.ex.inserts) :
          /\ Len(exported.ex.inserts[i].values) >= 1
          /\ Len(exported.ex.inserts[i].values) <= BATCH_SIZE
    /\ exported.ex.totalRows = Len(TuplesWritten(exported.ex, <<"t">>))

\* Reached: a table of two full pages of rows was exported, in more
\* statements than pages because a page was split by the size limit.
ExactlyOnceWitness ==
    /\ Len(exported.store) = 1
    /\ Len(exported.store[1].rows) = 2 * BATCH_SIZE
    /\ Len(exported.ex.inserts) > 2
    /\ \E i \in 1..Len(exported.ex.inserts) : Len(exported.ex.inserts[i].values) = BATCH_SIZE

----------------------------------------------------------------------------
(***************************************************************************)
(* The guarded import.                                                     *)
(***************************************************************************)
\* A statement that begins with BEGIN, COMMIT, ROLLBACK or PRAGMA.
IsControlVerb(text) ==
    \E w \in {Kw.begin, Kw.commit, Kw.rollback, Kw.pragma} : AfterWord(Trim(text), 1, w) # 0

\* A statement that begins with DROP TABLE.
IsDropTable(text) ==
    AfterWord(Trim(text), AfterSpaces(Trim(text), AfterWord(Trim(text), 1, Kw.drop)),
              Kw.table) # 0

\* The warnings and the errors of the statements of a log, as the import
\* adds them: a statement with an error adds its error and no warning.
WarningsOf(log) ==
    Concat([i \in 1..Len(log) |-> IF log[i].error = <<>> THEN log[i].warning ELSE <<>>])

ErrorsOf(log) == Concat([i \in 1..Len(log) |-> log[i].error])

NeverDestructive ==
    /\ TableIndex(dstStore, <<"t">>) # 0
    /\ \A i \in 1..Len(imp.log) :
          IsDropTable(imp.log[i].text)
             => /\ imp.log[i].query = <<>>
                /\ Len(imp.log[i].warning) = 1
                /\ imp.log[i].warning[1].kind = "Skipped DROP TABLE statement"

\* The table a statement targets: the name after INTO, or after TABLE and
\* an IF NOT EXISTS; <<>> if it names none.
TargetAt(toks, j) ==
    IF IsWord(toks, j, Kw.into) THEN j + 1
    ELSE IF IsWord(toks, j, Kw.table)
         THEN (IF IsWord(toks, j + 1, Kw.if) THEN j + 4 ELSE j + 1)
    ELSE 0

TargetOf(text) ==
    With(Lex(text), LAMBDA toks :
       IF \E j \in 1..Len(toks) : TargetAt(toks, j) # 0 /\ IsName(toks, TargetAt(toks, j))
       THEN toks[TargetAt(toks, CHOOSE j \in 1..Len(toks) :
                                  /\ TargetAt(toks, j) # 0 /\ IsName(toks, TargetAt(toks, j))
                                  /\ \A h \in 1..(j - 1) :
                                        ~(TargetAt(toks, h) # 0
                                          /\ IsName(toks, TargetAt(toks, h))))].v
       ELSE <<>>)

IsInternalName(name) == Len(name) >= 4 /\ UpperText(SubSeq(name, 1, 4)) = <<"_", "C", "F", "_">>

\* C13: a statement that is not a control verb or a drop-table is skipped
\* with the internal-table warning exactly when its target table has the
\* _cf_ prefix, and is passed to the store otherwise.
InternalSkipByTarget ==
    \A i \in 1..Len(imp.log) :
       (~IsControlVerb(imp.log[i].text) /\ ~IsDropTable(imp.log[i].text))
          => IF IsInternalName(TargetOf(imp.log[i].text))
             THEN /\ imp.log[i].query = <<>>
                  /\ Len(imp.log[i].warning) = 1
                  /\ imp.log[i].warning[1].kind = "Skipped _cf_ table operation"
             ELSE /\ imp.log[i].query # <<>>
                  /\ imp.log[i].warning = <<>>

\* The rows inserted and the tables created by the statements of a log, and
\* the store after them.
RECURSIVE RowsOfLog(_, _)
RowsOfLog(log, k) ==
    IF k > Len(log) THEN 0
    ELSE (IF log[k].error = <<>> THEN log[k].rowsAffected ELSE 0) + RowsOfLog(log, k + 1)

TablesOfLog(log) ==
    Concat([i \in 1..Len(log) |-> IF log[i].error = <<>> THEN log[i].tableCreated ELSE <<>>])

RECURSIVE StoreAfter(_, _, _)
StoreAfter(store, log, k) ==
    IF k > Len(log) THEN store
    ELSE StoreAfter(executeStatementSafely(store, log[k].text).store, log, k + 1)

\* C14: when a read of the stream fails after k statements were processed,
\* the result has success false, executedStatements k, the rows inserted and
\* tables created by those statements, their errors in order followed by
\* one stream error, and the store is the store after those k statements.
StreamFailurePartialCounts ==
    ipc = "failed"
       => /\ importResult.success = FALSE
          /\ importResult.executedStatements = Len(imp.log)
          /\ importResult.rowsInserted = RowsOfLog(imp.log, 1)
          /\ importResult.tablesCreated = TablesOfLog(imp.log)
          /\ importResult.errors.defined
          /\ importResult.errors.list = Append(ErrorsOf(imp.log), StreamError)
          /\ dstStore = StoreAfter(GuardStore, imp.log, 1)

StreamFailureWitness ==
    /\ ipc = "failed"
    /\ reqBody # <<>>
    /\ Len(imp.log) = 2
    /\ Len(imp.errors) = 1
    /\ importResult.rowsInserted = 1
    /\ Len(importResult.errors.list) = 2
    /\ dstStore # GuardStore

\* C15: runFromFile never throws to its caller: every call ends with an
\* ImportResult.
AlwaysStructuredResult == ipc # "thrown"

----------------------------------------------------------------------------
(***************************************************************************)
(* Export requests: faults of the store queries and the table filter.      *)
(***************************************************************************)
\* C17: when the catalog query fails, the stream is not closed as a
\* complete body.
CatalogFailureFatal == (exported # NoCall /\ exported.faults.catalog) => ~exported.ex.closed

\* The tables of the store of the call that are selected, as a set, and the
\* ones whose schema, columns or rows could not be retrieved.
SelectedOf(call) ==
    Range(SelectedTables(getTableList(call.store, call.faults), call.config))

FailedOf(call) ==
    { x \in SelectedOf(call) :
         \/ x \in call.faults.schema
         \/ x \in call.faults.rows
         \/ CursorThrows(call.store, x, call.faults)
         \/ getTableColumns(call.store, x, call.faults) = <<>> }

WarningsFor(x) ==
    { <<"C", "o", "u", "l", "d", " ", "n", "o", "t", " ", "e", "x", "p", "o", "r", "t", " ", "s", "c", "h", "e", "m", "a", " ", "f", "o", "r", " ", "t", "a", "b", "l", "e", ":", " ">> \o x,
      <<"C", "o", "u", "l", "d", " ", "n", "o", "t", " ", "e", "x", "p", "o", "r", "t", " ", "d", "a", "t", "a", " ", "f", "o", "r", " ", "t", "a", "b", "l", "e", ":", " ">> \o x \o <<" ", "-", " ", "n", "o", " ", "c", "o", "l", "u", "m", "n", "s", " ", "f", "o", "u", "n", "d">>,
      <<"F", "a", "i", "l", "e", "d", " ", "t", "o", " ", "e", "x", "p", "o", "r", "t", " ", "d", "a", "t", "a", " ", "f", "r", "o", "m", " ">> \o x \o <<":", " ", "E", "r", "r", "o", "r">> }

InsertsFor(ex, x) == SelectSeq(ex.inserts, LAMBDA ins : ins.table = x)

\* C18: when the schema, the columns or the rows of a selected table cannot
\* be retrieved, there is a warning for that table, every other selected
\* table has its schema statement and the INSERT statements of the export
\* without faults, and the stream is closed after the footer.
PerTableFailureIsWarning ==
    (exported # NoCall /\ ~exported.faults.catalog)
       => /\ \A x \in FailedOf(exported) :
                \E i \in 1..Len(exported.ex.warnings) :
                   exported.ex.warnings[i] \in WarningsFor(x)
          /\ \A y \in SelectedOf(exported) \ FailedOf(exported) :
                /\ SafeSQL(getTableSchema(exported.store, y, NoFaults)) \o <<";", NL, NL>>
                      \in Range(exported.ex.chunks)
                /\ InsertsFor(exported.ex, y)
                      = InsertsFor(getExport(exported.store, exported.config, exported.at,
                                             NoFaults), y)
          /\ exported.ex.closed
          /\ \E i \in 1..Len(exported.ex.chunks) :
                StartsWith(exported.ex.chunks[i], <<"\n", "-", "-", " ", "E", "x", "p", "o", "r", "t", " ", "c", "o", "m", "p", "l", "e", "t", "e", "d">>)

PerTableFailureWitness ==
    /\ exported # NoCall
    /\ ~exported.faults.catalog
    /\ FailedOf(exported) = { <<"t">> }
    /\ exported.faults.rows = { <<"t">> }
    /\ <<"u">> \in SelectedOf(exported)
    /\ Len(InsertsFor(exported.ex, <<"u">>)) = 1
    /\ Len(InsertsFor(exported.ex, <<"t">>)) = 0
    /\ exported.ex.closed

\* The tables that have a data section in the body.
DataSections(ex) ==
    { CatalogNames[k] : k \in { h \in 1..Len(CatalogNames) :
         <<"\n", "-", "-", " ", "D", "a", "t", "a", " ", "f", "o", "r", " ", "t", "a", "b", "l", "e", " ">> \o CatalogNames[h] \o <<NL>> \in Range(ex.chunks) } }

\* C19: with a whitelist the exported tables are the tables of the list
\* that the whitelist names, whatever the blacklist; with a blacklist only,
\* the listed tables the blacklist does not name; with neither, all of
\* them.  The list is the table list getExport filters.
WhitelistPrecedence ==
    exported # NoCall
       => /\ Range(exported.ex.exportedTables)
                = With(Range(getTableList(exported.store, exported.faults)), LAMBDA all :
                     IF exported.config.tableWhitelist # <<>>
                     THEN all \cap Range(exported.config.tableWhitelist)
                     ELSE IF exported.config.tableBlacklist # <<>>
                          THEN all \ Range(exported.config.tableBlacklist)
                     ELSE all)
          /\ DataSections(exported.ex) = Range(exported.ex.exportedTables)

WhitelistWitness ==
    /\ exported # NoCall
    /\ exported.config.tableWhitelist = << <<"t">> >>
    /\ exported.config.tableBlacklist = << <<"t">> >>
    /\ Len(exported.store) > 1
    /\ exported.ex.exportedTables = << <<"t">> >>

\* C20: a table with the prefix sqlite_ or _cf_ is never exported, whatever
\* the whitelist, and with no filter every table without these prefixes is
\* exported.
HasInternalPrefix(name) == StartsWith(name, <<"s", "q", "l", "i", "t", "e", "_">>) \/ StartsWith(name, <<"_", "c", "f", "_">>)

InternalExcludedByPrefix ==
    (exported # NoCall /\ ~exported.faults.catalog)
       => \A k \in 1..Len(exported.store) :
             /\ HasInternalPrefix(exported.store[k].name)
                   => exported.store[k].name \notin Range(exported.ex.exportedTables)
             /\ (/\ ~HasInternalPrefix(exported.store[k].name)
                 /\ exported.config.tableWhitelist = <<>>
                 /\ exported.config.tableBlacklist = <<>>)
                   => exported.store[k].name \in Range(exported.ex.exportedTables)

\* C16: clone and dump never throw: dump never ends in a raised exception,
\* and a dump in which any step failed resolves to the failure record; clone
\* never ends in a rejected promise, and a clone in which any request or
\* parse failed resolves to success = false with an error message.
NeverThrow ==
    /\ dpc # "thrown"
    /\ (dpc = "done" /\ dumpFaults # {}) => dumpResult = DumpFailure
    /\ clone.result.settled # "rejected"
    /\ (clone.pc = "done" /\ clone.faults # {}) =>
          /\ clone.result.settled = "resolved"
          /\ ~clone.result.success
          /\ clone.result.error

----------------------------------------------------------------------------
(***************************************************************************)
(* Properties of the import of an export into a store that holds the       *)
(* tables already (SpecReimport).                                          *)
(***************************************************************************)
\* The chunks of an export that are create statements.
CreateChunks(ex) ==
    SelectSeq(ex.chunks, LAMBDA chunk : AfterWord(Trim(chunk), 1, Kw.create) # 0)

\* C21: every create-table statement getExport writes has the form CREATE
\* TABLE IF NOT EXISTS, and the import of the schema of a store into a store
\* that has the tables gives no error and leaves the tables and their rows
\* as they were.
IdempotentSchema ==
    /\ exported # NoCall =>
          \A i \in 1..Len(CreateChunks(exported.ex)) :
              StartsWith(CreateChunks(exported.ex)[i], <<"C", "R", "E", "A", "T", "E", " ", "T", "A", "B", "L", "E", " ", "I", "F", " ", "N", "O", "T", " ", "E", "X", "I", "S", "T", "S", " ">>)
    /\ (ipc = "finalized" /\ ~exported.config.includeData) =>
          /\ importResult.success
          /\ ~importResult.errors.defined
          /\ dstStore = srcStore

\* A schema of two tables was imported into the store that has them.
IdempotentSchemaWitness ==
    /\ ipc = "finalized" /\ ~exported.config.includeData
    /\ Len(srcStore) = 2
    /\ Len(CreateChunks(exported.ex)) = 2
    /\ importResult.executedStatements = 2
    /\ dstStore = srcStore

\* C22: with includeSchema, the index definitions of every selected table
\* that has indexes are in the body: for each index there is a chunk that
\* is a CREATE INDEX statement with the name of the index.
IndexesExported ==
    (exported # NoCall /\ exported.config.includeSchema) =>
        \A k \in 1..Len(exported.store) :
            exported.store[k].name \in Range(exported.ex.exportedTables) =>
                \A i \in 1..Len(exported.store[k].indexes) :
                    \E c \in 1..Len(exported.ex.chunks) :
                        /\ AfterWord(Trim(exported.ex.chunks[c]), 1, Kw.create) # 0
                        /\ Contains(UpperText(exported.ex.chunks[c]), Kw.index)
                        /\ Contains(exported.ex.chunks[c],
                                    exported.store[k].indexes[i].name)

\* C23: the export never holds more than one batch: when getExport returns
\* its Response, before the consumer has read a chunk, the chunks enqueued
\* hold at most BATCH_SIZE row tuples.
BoundedBuffering ==
    exported # NoCall =>
        Len(Concat([i \in 1..Len(exported.ex.inserts) |-> exported.ex.inserts[i].values]))
           <= BATCH_SIZE

----------------------------------------------------------------------------
(***************************************************************************)
(* Properties of dump and clone in a failing environment (SpecFail).       *)
(***************************************************************************)
\* The position of the first step e of the dump, 0 when it was not taken.
StepAt(e) ==
    IF \E i \in 1..Len(dumpTrace) : dumpTrace[i].e = e
    THEN CHOOSE i \in 1..Len(dumpTrace) :
            dumpTrace[i].e = e /\ \A j \in 1..(i - 1) : dumpTrace[j].e # e
    ELSE 0

\* Step a was taken, and before step b if b was taken.
Precedes(a, b) == StepAt(a) # 0 /\ (StepAt(b) # 0 => StepAt(a) < StepAt(b))

Writes == SelectSeq(dumpTrace, LAMBDA s : s.e = "write")

\* C24: the bucket is resolved before any export starts, and a missing
\* bucket gives the failure result with no export and no sink; pass 1 is
\* drained before the sink is created and before pass 2's export starts;
\* the upload is started before the first chunk is written; the chunks are
\* written in generation order; the sink is closed after the last chunk and
\* before the upload is awaited.
TwoPassOrder ==
    /\ StepAt("export 1 started") # 0 => Precedes("bucket found", "export 1 started")
    /\ StepAt("bucket missing") # 0 =>
          /\ Len(dumpTrace) = 1 /\ dumpResult = DumpFailure
          /\ exported = NoCall /\ sink = NoSink
    /\ StepAt("sink created") # 0 => Precedes("export 1 drained", "sink created")
    /\ StepAt("export 2 started") # 0 => Precedes("export 1 drained", "export 2 started")
    /\ StepAt("write") # 0 => Precedes("put started", "write")
    /\ \A i \in 1..Len(Writes) : Writes[i].k = i
    /\ StepAt("sink closed") # 0 =>
          \A i \in 1..Len(dumpTrace) :
              dumpTrace[i].e = "write" => i < StepAt("sink closed")
    /\ StepAt("upload awaited") # 0 => Precedes("sink closed", "upload awaited")
    /\ (dpc = "done" /\ dumpResult.success) =>
          /\ Len(Writes) = Len(exported.ex.chunks)
          /\ StepAt("upload awaited") = Len(dumpTrace)

\* A dump that succeeded after it wrote several chunks.
TwoPassOrderWitness ==
    /\ dpc = "done" /\ dumpResult.success
    /\ Len(Writes) >= 2
    /\ StepAt("put started") < StepAt("write")

\* The requests of clone in the order the steps come in.
CloneOrder == << "clear destination", "export", "import", "clear source" >>

\* The request of the step has failed with a non-2xx answer or on the
\* network.
TransportFault(step) ==
    \E f \in clone.faults : f.step = step /\ f.kind \in {"non2xx", "network"}

\* C25: clone sends its requests in the order destination clear (only with
\* clearOnImport), export, import, source clear (only with
\* clearAfterExport), each at most once; when the destination clear, the
\* export or the import gets a non-2xx answer or fails on the network, no
\* later request is sent and clone returns success = false with an error.
CloneStepOrder ==
    /\ \A i \in 1..Len(clone.requests) :
          /\ clone.requests[i] \in Range(CloneOrder)
          /\ \A j \in (i + 1)..Len(clone.requests) :
                IndexIn(CloneOrder, clone.requests[i]) < IndexIn(CloneOrder, clone.requests[j])
    /\ "clear destination" \in Range(clone.requests) => clone.config.clearOnImport
    /\ "clear source" \in Range(clone.requests) => clone.config.clearAfterExport
    /\ (clone.pc = "done" /\ clone.faults = {}) =>
          clone.requests =
             SelectSeq(CloneOrder, LAMBDA s :
                /\ s = "clear destination" => clone.config.clearOnImport
                /\ s = "clear source" => clone.config.clearAfterExport)
    /\ \A step \in {"clear destination", "export", "import"} :
          TransportFault(step) =>
             /\ clone.requests[Len(clone.requests)] = step
             /\ clone.pc = "done"
             /\ ~clone.result.success /\ clone.result.error

\* The export request got a non-2xx answer after the destination was
\* cleared.
CloneStepOrderWitness ==
    /\ clone.pc = "done"
    /\ clone.config.clearOnImport /\ clone.config.clearAfterExport
    /\ clone.requests = << "clear destination", "export" >>
    /\ TransportFault("export")
    /\ ~clone.result.success

\* The destination is a Transferable endpoint: it answers the import with
\* its import result, with status 200 when success is true and 400 when not.
TransferableImport ==
    /\ clone.produced # <<>>
    /\ clone.produced[1].status = (IF clone.produced[1].success THEN "ok" ELSE "non2xx")

\* C26: when the destination is a Transferable endpoint that produced an
\* import result (and the source clear, if any, did not fail), clone returns
\* that result as importResult and its success is the result's success.
CloneSuccessIsImportSuccess ==
    (clone.pc = "done" /\ TransferableImport
        /\ ~\E f \in clone.faults : f.step = "clear source") =>
        /\ clone.result.importResult = << [success |-> clone.produced[1].success] >>
        /\ clone.result.success = clone.produced[1].success

\* C27: when the import has completed and the source clear request fails
\* (non-2xx answer, network error or unreadable body), clone's success is
\* the import result's success and importResult is returned.
SourceClearFailureIsWarning ==
    (clone.pc = "done" /\ \E f \in clone.faults : f.step = "clear source") =>
        /\ clone.result.importResult = clone.importResult
        /\ clone.result.success = clone.importResult[1].success

----------------------------------------------------------------------------
(***************************************************************************)
(* Properties of the credential gate (SpecGate).                           *)
(***************************************************************************)
\* The destination is a Transferable endpoint: the import request failed on
\* the network or was answered as TransferableImport says.
TransferableDestination ==
    "import" \in Range(clone.requests) =>
        \/ TransferableImport
        \/ [step |-> "import", kind |-> "network"] \in clone.faults

\* A request before the source clear has failed.
EarlierStepFailed ==
    \E f \in clone.faults : f.step \in {"clear destination", "export", "import"}

\* C33: between Transferable endpoints the source clear request is sent
\* only after the import request was answered with an import result whose
\* success is true and no earlier request failed; when the import result's
\* success is false or an earlier request failed, it is never sent, and the
\* source store is as it was.
ClearOnlyAfterSuccess ==
    TransferableDestination =>
        /\ "clear source" \in Range(clone.requests) =>
              /\ clone.config.clearAfterExport
              /\ clone.produced # <<>> /\ clone.produced[1].success
              /\ clone.produced[1].status = "ok"
              /\ \E i, j \in 1..Len(clone.requests) :
                    i < j /\ clone.requests[i] = "import"
                          /\ clone.requests[j] = "clear source"
              /\ ~EarlierStepFailed
        /\ (EarlierStepFailed \/ (clone.produced # <<>> /\ ~clone.produced[1].success)) =>
              /\ "clear source" \notin Range(clone.requests)
              /\ srcStore = TableT(<< << [t |-> "int", neg |-> FALSE, i |-> 1] >> >>)
        /\ srcStore = <<>> => "clear source" \in Range(clone.requests)

\* The destination answered 400 with an import result whose success is
\* false: clone, asked to clear the source, has returned without sending
\* the source clear request.
ClearOnlyAfterSuccessWitness ==
    /\ clone.pc = "done" /\ clone.config.clearAfterExport
    /\ clone.produced = << [success |-> FALSE, status |-> "non2xx"] >>
    /\ clone.requests[Len(clone.requests)] = "import"
    /\ srcStore # <<>>
    /\ ~clone.result.success

\* The header is a Basic Authorization header (the scheme in any case, a
\* space, the credentials in base64) whose credentials decode to the text.
BasicDecodesTo(header, text) ==
    /\ Len(header) >= 6
    /\ UpperText(SubSeq(header, 1, 5)) = <<"B", "A", "S", "I", "C">> /\ header[6] = " "
    /\ atob(SubSeq(header, 7, Len(header))).ok
    /\ atob(SubSeq(header, 7, Len(header))).bytes = CharCodes(text)

\* C28: checkAuth returns true exactly when no secret is configured, or
\* requireAuth is false and isReadonlyPublic is set, or the Basic
\* Authorization header decodes to the secret, or the apiKey parameter is
\* the secret.
CredentialGateDecision ==
    gate.served # "none" =>
        (gate.served # "unauthorized"
           <=> \/ gate.config.secret = <<>>
               \/ IsReadonly(gate.request) /\ gate.config.isReadonlyPublic
               \/ BasicDecodesTo(gate.request.authorization, gate.config.secret)
               \/ gate.request.apiKey = gate.config.secret)

\* The request carries the secret: as the apiKey parameter, or in base64 in
\* the Authorization header from some position on.
CarriesSecret ==
    \/ gate.request.apiKey = gate.config.secret
    \/ \E k \in 1..Len(gate.request.authorization) :
          /\ atob(SubSeq(gate.request.authorization, k, Len(gate.request.authorization))).ok
          /\ atob(SubSeq(gate.request.authorization, k, Len(gate.request.authorization))).bytes
                = CharCodes(gate.config.secret)

\* C29: with a secret and isReadonlyPublic, a request without the secret is
\* served only if it is GET /transfer/export; every other one is answered
\* 401 and changes neither the store, nor the alarm, nor the bucket.
PublicCoversOnlyExport ==
    (gate.served # "none" /\ gate.config.secret # <<>> /\ gate.config.isReadonlyPublic
        /\ ~CarriesSecret) =>
        IF IsReadonly(gate.request) THEN gate.served = "export" /\ exported # NoCall
        ELSE /\ gate.served = "unauthorized" /\ gate.status = 401
             /\ srcStore = TableT(<< << [t |-> "int", neg |-> FALSE, i |-> 1] >> >>)
             /\ gate.alarm
             /\ dpc = "idle" /\ sink = NoSink /\ dumpTrace = <<>>
             /\ exported = NoCall /\ importResult = "none"

\* POST /transfer/clear with a wrong credential to a publicly readable
\* object was answered 401.
PublicCoversOnlyExportWitness ==
    /\ gate.served = "unauthorized"
    /\ gate.config.secret # <<>> /\ gate.config.isReadonlyPublic
    /\ gate.request.path = "/transfer/clear" /\ gate.request.method = "POST"
    /\ gate.request.authorization = <<"B", "a", "s", "i", "c", " ">> \o btoa(<<"a", ":", "c">>)
    /\ srcStore # <<>> /\ gate.alarm

----------------------------------------------------------------------------
(***************************************************************************)
(* Properties of the annotations of an export body (SpecExport).           *)
(***************************************************************************)
\* The line is blank, or its first two characters after the leading white
\* space are "--".
IsAnnotation(line) ==
    \/ \A i \in 1..Len(line) : IsWs(line[i])
    \/ \E i \in 1..(Len(line) - 1) :
          /\ line[i] = "-" /\ line[i + 1] = "-"
          /\ \A j \in 1..(i - 1) : IsWs(line[j])

\* The text without its annotation lines and their line ends.
StripAnnotations(text) ==
    With(SplitLines(text), LAMBDA lines :
       Concat([k \in 1..Len(lines) |->
                 IF IsAnnotation(lines[k].line) THEN <<>>
                 ELSE IF k < Len(lines) THEN lines[k].line \o <<NL>>
                 ELSE lines[k].line]))

BodyText(ex) == Concat(ex.chunks)

\* C30: the import of an export body, and the import of the body without
\* its comment lines and blank lines, return the same ImportResult and
\* leave the same store; no executed statement holds a comment line.
AnnotationsCosmetic ==
    exported # NoCall =>
        With(runFromFileOnce(<<>>, BodyOf(exported.ex)), LAMBDA whole :
        With(runFromFileOnce(<<>>, Encode(StripAnnotations(BodyText(exported.ex)))),
             LAMBDA bare :
           /\ ImportResultOf(whole.imp) = ImportResultOf(bare.imp)
           /\ whole.store = bare.store
           /\ whole.imp.executedStatements
                 = Len(parseSQLStatements(StripAnnotations(BodyText(exported.ex))))
           /\ \A i \in 1..Len(whole.imp.log) :
                 \A k \in 1..Len(SplitLines(whole.imp.log[i].text)) :
                    ~IsAnnotation(SplitLines(whole.imp.log[i].text)[k].line)))

\* An export body with a header, table notes, a row count note, a footer
\* and warnings, whose import executed statements and inserted a row.
AnnotationsCosmeticWitness ==
    /\ exported # NoCall
    /\ exported.ex.warnings # <<>>
    /\ Len(StripAnnotations(BodyText(exported.ex))) + 100 < Len(BodyText(exported.ex))
    /\ runFromFileOnce(<<>>, BodyOf(exported.ex)).imp.rowsInserted >= 1
    /\ Len(runFromFileOnce(<<>>, BodyOf(exported.ex)).imp.tablesCreated) >= 1

----------------------------------------------------------------------------
(***************************************************************************)
(* Properties of the import of an export body into the store it was made   *)
(* from (SpecReimport).                                                    *)
(***************************************************************************)
TableNames(store) == { store[i].name : i \in 1..Len(store) }

\* C31: when runFromFile has returned, tablesCreated holds, once each, the
\* names of the tables that the import created and that the store did not
\* have before the import, and no other name.  The store before the import
\* is srcStore.
TablesCreatedAreNew ==
    ipc = "finalized" =>
        /\ \A i \in 1..Len(importResult.tablesCreated) :
              /\ importResult.tablesCreated[i] \notin TableNames(srcStore)
              /\ importResult.tablesCreated[i] \in TableNames(dstStore)
              /\ \A j \in 1..Len(importResult.tablesCreated) :
                    importResult.tablesCreated[i] = importResult.tablesCreated[j] => i = j
        /\ \A name \in TableNames(dstStore) \ TableNames(srcStore) :
              \E i \in 1..Len(importResult.tablesCreated) :
                 importResult.tablesCreated[i] = name

----------------------------------------------------------------------------
(***************************************************************************)
(* Properties of the order and the counts of an export body.               *)
(***************************************************************************)
\* The positions of the chunks that are create statements, INSERT
\* statements, and the summary.
CreateAt(ex) == { i \in 1..Len(ex.chunks) : StartsWith(ex.chunks[i], <<"C", "R", "E", "A", "T", "E", " ", "T", "A", "B", "L", "E", " ">>) }
InsertAt(ex) == { i \in 1..Len(ex.chunks) : StartsWith(ex.chunks[i], <<"I", "N", "S", "E", "R", "T", " ">>) }
FooterAt(ex) ==
    { i \in 1..Len(ex.chunks) : StartsWith(ex.chunks[i], <<"\n", "-", "-", " ", "E", "x", "p", "o", "r", "t", " ", "c", "o", "m", "p", "l", "e", "t", "e", "d", "\n">>) }

\* C32: the body starts with the header; every create statement is before
\* every INSERT statement; the summary, with its warnings if any, is the
\* last output and the stream is closed after it; every selected table
\* whose schema was read has its create statement; without includeSchema
\* there is no create statement, and without includeData no INSERT.
ReplayableOrdering ==
    exported # NoCall =>
        With(exported.ex, LAMBDA ex :
           /\ ex.closed
           /\ StartsWith(ex.chunks[1], <<"-", "-", " ", "D", "a", "t", "a", "b", "a", "s", "e", " ", "E", "x", "p", "o", "r", "t", "\n", "-", "-", " ", "G", "e", "n", "e", "r", "a", "t", "e", "d", ":", " ">>)
           /\ \A i \in CreateAt(ex), j \in InsertAt(ex) : i < j
           /\ \A i \in CreateAt(ex) \cup InsertAt(ex), f \in FooterAt(ex) : 1 < i /\ i < f
           /\ FooterAt(ex) = { IF ex.warnings = <<>> THEN Len(ex.chunks)
                                ELSE Len(ex.chunks) - 1 }
           /\ ex.warnings # <<>> => StartsWith(ex.chunks[Len(ex.chunks)], <<"-", "-", " ", "W", "a", "r", "n", "i", "n", "g", "s", ":", "\n">>)
           /\ exported.config.includeSchema =>
                 \A k \in 1..Len(ex.exportedTables) :
                    ex.exportedTables[k] \notin exported.faults.schema =>
                       \E i \in CreateAt(ex) :
                          StartsWith(ex.chunks[i],
                                     <<"C", "R", "E", "A", "T", "E", " ", "T", "A", "B", "L", "E", " ", "I", "F", " ", "N", "O", "T", " ", "E", "X", "I", "S", "T", "S", " ">> \o ex.exportedTables[k] \o <<" ">>)
           /\ ~exported.config.includeSchema => CreateAt(ex) = {}
           /\ ~exported.config.includeData => InsertAt(ex) = {})

\* An export with the schema and the data of two tables with rows.
ReplayableOrderingWitness ==
    /\ exported # NoCall
    /\ exported.config.includeSchema /\ exported.config.includeData
    /\ Cardinality(CreateAt(exported.ex)) >= 2
    /\ \E i, j \in 1..Len(exported.ex.inserts) :
          exported.ex.inserts[i].table # exported.ex.inserts[j].table
    /\ Cardinality(InsertAt(exported.ex)) = Len(exported.ex.inserts)

\* C35: when getExport has written the footer, totalRows, which the footer
\* and X-Total-Rows give, is the number of tuples of the INSERT statements
\* of the body.
FooterCountsWrittenRows ==
    (exported # NoCall /\ exported.ex.closed) =>
        /\ exported.ex.totalRows
              = Len(Concat([i \in 1..Len(exported.ex.inserts) |->
                              exported.ex.inserts[i].values]))
        /\ \E f \in FooterAt(exported.ex) :
              Contains(exported.ex.chunks[f],
                       <<"\n", "-", "-", " ", "T", "o", "t", "a", "l", " ", "r", "o", "w", "s", ":", " ">> \o Digits(exported.ex.totalRows) \o <<NL>>)

----------------------------------------------------------------------------
(***************************************************************************)
(* Properties of a body read while the store changes (SpecSnapshot).       *)
(***************************************************************************)
\* The chunks, encoded, of the export of a store at a clock value.
SnapshotChunks(store, at) ==
    With(getExport(store, DefaultConfig, at, NoFaults).chunks, LAMBDA chunks :
       [k \in 1..Len(chunks) |-> Encode(chunks[k])])

\* C34: the bytes read from the body of a getExport call are, chunk after
\* chunk, the export of the store as it was when getExport was called; the
\* writes, the clears and the clock ticks that happen between the reads
\* change nothing of it, and the complete body is the export of that one
\* store state.
AtomicSnapshot ==
    dpc \in {"reading", "done"} =>
        With(SnapshotChunks(pass1.store, pass1.at), LAMBDA chunks :
           /\ lastRead.n <= Len(chunks)
           /\ received = Concat(SubSeq(chunks, 1, lastRead.n))
           /\ exactSize = Len(received)
           /\ dpc = "done" => lastRead.n = Len(chunks))

\* The body of the export of a store with a row was read to the end, and
\* the store was cleared, or the clock ticked and a row was added, during
\* the reads.
AtomicSnapshotWitness ==
    /\ dpc = "done"
    /\ RowsOf(pass1.store) >= 1
    /\ srcStore # pass1.store
    /\ received # BodyOf(getExport(srcStore, DefaultConfig, now, NoFaults))
    /\ Len(received) > 0

\* Every table of the store has a primary key.
AllKeyed(store) == \A k \in 1..Len(store) : store[k].pk # 0

\* C36: when the export body of a store whose tables have a primary key has
\* been imported, runFromFile on the same body against the store the import
\* has produced leaves the store as it is and returns success = true, no
\* errors and rowsInserted = 0.
ReimportIdempotent ==
    (ipc = "finalized" /\ AllKeyed(srcStore)) =>
        With(runFromFileOnce(dstStore, BodyOf(exported.ex)), LAMBDA second :
           /\ second.store = dstStore
           /\ ImportResultOf(second.imp).success
           /\ second.imp.errors = <<>>
           /\ second.imp.rowsInserted = 0)

\* C37: with a secret configured, a request that does not carry the secret
\* and is not GET /transfer/export is answered 401 whatever its path and
\* method: no transfer operation runs and the fetch of the wrapped class is
\* not called.
GateBeforeRouting ==
    (gate.served # "none" /\ gate.config.secret # <<>> /\ ~CarriesSecret
        /\ ~IsReadonly(gate.request)) =>
        /\ gate.served = "unauthorized" /\ gate.status = 401
        /\ gate.served \notin {"export", "import", "importFromUrl", "clear", "dump", "super"}
        /\ srcStore = TableT(<< << [t |-> "int", neg |-> FALSE, i |-> 1] >> >>)
        /\ exported = NoCall /\ importResult = "none" /\ dpc = "idle" /\ gate.alarm

\* A request with a wrong credential to a path that is no transfer
\* endpoint, of an object that is not publicly readable, was answered 401.
GateBeforeRoutingWitness ==
    /\ gate.served = "unauthorized" /\ gate.status = 401
    /\ gate.config.secret # <<>> /\ ~gate.config.isReadonlyPublic
    /\ gate.request.path = "/other"
    /\ gate.request.apiKey = <<"a">>
    /\ gate.request.authorization = <<>>

(***************************************************************************)
(* Properties of importFromUrl of the cursor variant (SpecCursor)          *)
(***************************************************************************)

\* The number of rows held by the tables of a store from the k-th on.
RECURSIVE RowsHeld(_, _)
RowsHeld(store, k) ==
    IF k > Len(store) THEN 0 ELSE Len(store[k].rows) + RowsHeld(store, k + 1)

\* The tables with a fault, and those whose create statement is not reached
\* or fails.
CursorFaulted(f) == f.schema \cup f.missing \cup f.create \cup f.columns \cup f.rows
CursorNotCreated(f) == f.schema \cup f.missing \cup f.create

\* The errors and the warnings of the result.
CursorNotes(res) == Range(res.errors.list) \cup Range(res.warnings.list)

\* The remote table x is held by the local store: the table is there and,
\* when it has the remote table's columns, so is every remote row.
CursorTableHeld(x) ==
    /\ TableIndex(dstStore, x) > 0
    /\ With(srcStore[TableIndex(srcStore, x)], LAMBDA remote :
         With(dstStore[TableIndex(dstStore, x)], LAMBDA local :
            Range(remote.columns) \subseteq Range(local.columns)
               => \A i \in 1..Len(remote.rows) :
                     FullRow(local.columns, remote.columns, remote.rows[i])
                        \in Range(local.rows)))

\* C38: the cursor-based importFromUrl tolerates per-table failures: when
\* the schema query, the create statement or the data cursor of one remote
\* table fails, an error or a warning names that table and every other
\* table is still processed; success is true exactly when there is no
\* error; tablesCreated is, in order, the tables whose create statement
\* succeeded; and rowsImported is the number of rows the inserts wrote, a
\* row ignored as a duplicate not being counted.
CursorImportTolerant ==
    urlImport.done =>
       With(urlImport.result, LAMBDA res :
          With(getTableList(srcStore, NoFaults), LAMBDA names :
             /\ res.success <=> ~res.errors.defined
             /\ res.rowsImported = RowsHeld(dstStore, 1) - RowsHeld(urlImport.before, 1)
             /\ urlImport.faults.list =>
                   ~res.success /\ res.tablesCreated = <<>> /\ dstStore = urlImport.before
             /\ ~urlImport.faults.list =>
                   /\ \A x \in Range(names) \cap CursorFaulted(urlImport.faults) :
                         \E note \in CursorNotes(res) : note.table = x
                   /\ \A x \in Range(names) \ CursorFaulted(urlImport.faults) :
                         CursorTableHeld(x)
                   /\ res.tablesCreated =
                         SelectSeq(names, LAMBDA x : x \notin CursorNotCreated(urlImport.faults))
                   /\ \A x \in Range(res.tablesCreated) : TableIndex(dstStore, x) > 0))

\* Witness for C38: the create statement of u fails; t, before it, and e,
\* after it, are created, and of the two rows of t the one the local table
\* had is ignored and not counted.
CursorImportTolerantWitness ==
    /\ urlImport.done
    /\ urlImport.faults = [NoCursorFaults EXCEPT !.create = {<<"u">>}]
    /\ TableIndex(urlImport.before, <<"t">>) > 0
    /\ ~urlImport.result.success
    /\ urlImport.result.errors.list = << [kind |-> "Failed to create table", table |-> <<"u">>] >>
    /\ urlImport.result.tablesCreated = << <<"t">>, <<"e">> >>
    /\ urlImport.result.rowsImported = 1
    /\ Len(dstStore[TableIndex(dstStore, <<"t">>)].rows) = 2

====
